---- MODULE Spec2Model ----
(***************************************************************************)
(* Model of the dataset runs framework, fiftyone/core/runs.py: the run     *)
(* documents of one dataset, the GridFS files holding run results, and the *)
(* in-process results cache, under the operations of class Run; and of the *)
(* constructors of the 3D objects of fiftyone/core/threed.                 *)
(***************************************************************************)
EXTENDS Bags, FiniteSets, Integers, Sequences, TLC

VARIABLES
    run_docs,       \* dataset._doc.<runs field>: dict run key -> RunDocument
    gridfs,         \* the GridFS files written by run_doc.results.put(): a bag of blobs
    results_cache,  \* dataset.<results cache field>: dict run key -> RunResults (or None)
    last,           \* the most recent call: operation, arguments, error raised, result
    callers,        \* the register_run() calls in progress, by calling thread
    node            \* the 3D object constructed last: the constructor call and its outcome

vars == <<run_docs, gridfs, results_cache, last, callers, node>>

----------------------------------------------------------------------------
(* Bounds of the model *)

\* the timestamps datetime.utcnow() yields in this session are 1..MaxTime; 0 is earlier
MaxTime == 1
\* results payloads are drawn from 0..MaxData
MaxData == 1
\* the file names of the paths given to the 3D objects have up to MaxStem
\* characters before the extension
MaxStem == 1

----------------------------------------------------------------------------
(* Values *)

\* Run keys are strings, modelled as sequences of characters; None is a
\* value that is no string.
NoneKey == <<"%None">>
Letters == {"a", "b"}
Digits == {"1"}
KeyA == <<"a">>
KeyB == <<"b">>
Key1 == <<"1">>
\* the string keys callers pass: two identifiers and a string that is none
Keys == {KeyA, KeyB, Key1}
KeyArgs == Keys \cup {NoneKey}
\* the keys callers rename runs to
NewKeys == {KeyA, KeyB}

is_str(key) == key # NoneKey

\* str.isidentifier(): a letter or underscore, then letters, digits, underscores
isidentifier(key) ==
    /\ Len(key) > 0
    /\ key[1] \in Letters \cup {"_"}
    /\ \A i \in 1..Len(key) : key[i] \in Letters \cup Digits \cup {"_"}

\* foc.VERSION of the running library, and the version of an older library
VERSION == "v2"
OldVersion == "v1"
Versions == {VERSION, OldVersion}

Times == 1..MaxTime
Data == 0..MaxData

\* the view a run is registered on (samples.view()), as its list of stages
Views == {<<"stage">>}

\* RunConfig classes by name.  The classes of ConfigClasses exist in the
\* running library; a stored config may also name "GoneConfig", a class the
\* running library cannot resolve.
ConfigClasses == {"ARunConfig", "BRunConfig"}

\* RunResults classes by name: the base class and a subclass implementing
\* _from_dict
BaseResults == "RunResults"
ResultsClasses == {BaseResults, "AResults"}

\* Python's None where a RunResults object is expected
NoneResults == [cls |-> "NoneType", data |-> 0, key |-> NoneKey]

IsNone(r) == r.cls = "NoneType"

\* A RunResults object: its class, its serialized attributes, its _key
RunResultsObjs(key) ==
    [cls : {"AResults"}, data : Data, key : {key}] \cup [cls : {BaseResults}, data : {0}, key : {key}]

\* An empty GridFS proxy (run_doc.results is falsy)
NoBlob == <<>>

----------------------------------------------------------------------------
(* Serialization *)

\* RunConfig.serialize(): "method", "cls", then the subclass fields
ConfigMethod(cls) == IF cls = "ARunConfig" THEN "a" ELSE "b"

SerializeConfig(config) == [method |-> ConfigMethod(config.type), cls |-> config.type]

\* etau.get_class() on a config class name
ResolvesConfig(cls) == cls \in ConfigClasses

\* RunConfig.from_dict(): drops "method", resolves "cls", constructs the config
ConfigFromDict(d) ==
    IF ResolvesConfig(d.cls)
    THEN [err |-> "none", val |-> [type |-> d.cls]]
    ELSE [err |-> "ImportError", val |-> [type |-> "?"]]

\* RunResults.serialize(): "cls", then the public attributes; _key, _samples,
\* _config and _backend are not serialized
SerializeResults(r) == [cls |-> r.cls, data |-> r.data]

\* an encoding that loses the attributes of the results
EncodeResults_NoData(d) == <<"cls", d.cls, "data", 0>>

\* json_util.dumps(d).encode(): the dict written out field by field
EncodeResults(d) == <<"cls", d.cls, "data", d.data>>

\* json_util.loads(bytes.decode())
DecodeResults(bytes) == [cls |-> bytes[2], data |-> bytes[4]]

\* RunResults.from_dict(): dispatch on d["cls"] to the subclass's _from_dict;
\* the base class's _from_dict raises NotImplementedError
ResultsFromDict(d, key) ==
    IF d.cls \notin ResultsClasses
    THEN [err |-> "ImportError", val |-> NoneResults]
    ELSE IF d.cls = BaseResults
    THEN [err |-> "NotImplementedError", val |-> NoneResults]
    ELSE [err |-> "none", val |-> [cls |-> d.cls, data |-> d.data, key |-> key]]

----------------------------------------------------------------------------
(* The state of a dataset, as the value the operations transform *)

State(docs, fs, cache) == [docs |-> docs, fs |-> fs, cache |-> cache]

Current == State(run_docs, gridfs, results_cache)

\* dict.pop(key, None): the dict without the key
Pop(d, key) == [k \in (DOMAIN d) \ {key} |-> d[k]]

\* d[key] = value
Put(d, key, value) == [k \in (DOMAIN d) \cup {key} |-> IF k = key THEN value ELSE d[k]]

EmptyDict == [k \in {} |-> NoneKey]

\* GridFSProxy.put(bytes) and GridFSProxy.delete()
FsPut(fs, blob) == fs (+) SetToBag({blob})
FsDelete(fs, blob) == fs (-) SetToBag({blob})

\* list_runs(samples) with no filter: the keys of the run documents
ListRuns(st) == DOMAIN st.docs

\* Python's order on characters and, lexicographically, on strings
CharRank(c) == CASE c = "1" -> 1 [] c = "_" -> 2 [] c = "a" -> 3 [] c = "b" -> 4 [] OTHER -> 0

RECURSIVE StrLess(_, _)
StrLess(s, t) ==
    IF s = <<>> THEN t # <<>>
    ELSE IF t = <<>> THEN FALSE
    ELSE IF Head(s) # Head(t) THEN CharRank(Head(s)) < CharRank(Head(t))
    ELSE StrLess(Tail(s), Tail(t))

\* sorted(keys)
RECURSIVE Sorted(_)
Sorted(S) ==
    IF S = {} THEN <<>>
    ELSE LET m == CHOOSE x \in S : \A y \in S \ {x} : StrLess(x, y)
         IN  <<m>> \o Sorted(S \ {m})

\* get_run_info() that re-raises the original error whatever the versions
GetRunInfo_Reraise(st, key) ==
    IF key \notin DOMAIN st.docs
    THEN [err |-> "ValueError:nokey", config |-> [type |-> "?"]]
    ELSE LET doc == st.docs[key]
             c == ConfigFromDict(doc.config)
         IN  IF c.err = "none" THEN [err |-> "none", config |-> c.val]
             ELSE [err |-> c.err, config |-> c.val]

\* RunInfo._from_doc() inside get_run_info(): the config is rebuilt from its
\* dict; when that fails the error is re-raised if the run's version is the
\* running one, and a ValueError naming both versions is raised otherwise
GetRunInfo(st, key) ==
    IF key \notin DOMAIN st.docs
    THEN [err |-> "ValueError:nokey", config |-> [type |-> "?"]]
    ELSE LET doc == st.docs[key]
             c == ConfigFromDict(doc.config)
         IN  IF c.err = "none" THEN [err |-> "none", config |-> c.val]
             ELSE IF doc.version = VERSION THEN [err |-> c.err, config |-> c.val]
             ELSE [err |-> "ValueError:version", config |-> c.val]

\* Run classes by name: the base class and the run classes of the two config
\* classes; NoType is type=None
RunTypes == {"Run", "ARun", "BRun"}
NoType == "%None"

\* RunConfig.run_cls: the class named as the config class without "Config"
RunCls(config) == IF config.type = "ARunConfig" THEN "ARun" ELSE "BRun"

\* issubclass(run_cls, type)
IsSubclass(run_cls, type) == type = "Run" \/ run_cls = type

\* getattr(config, field, None)
NoValue == "%None"
ConfigAttr(config, field) ==
    CASE field = "method" -> ConfigMethod(config.type)
      [] field = "cls" -> config.type
      [] OTHER -> NoValue

\* the **kwargs given to list_runs(): none, a method, a field the configs do
\* not have (with a value, and with None), and two fields at once
KwargsSets ==
    {EmptyDict, [method |-> "a"], [method |-> "b"], [metric |-> "x"], [metric |-> NoValue],
     [method |-> "a", metric |-> NoValue]}

\* the loop body of list_runs(): whether the key is appended
Appended(st, key, type, kwargs) ==
    LET run_info == GetRunInfo(st, key)
    IN  IF run_info.err # "none" THEN FALSE
        ELSE IF type # NoType /\ ~IsSubclass(RunCls(run_info.config), type) THEN FALSE
        ELSE IF \E field \in DOMAIN kwargs :
                  ConfigAttr(run_info.config, field) # kwargs[field] THEN FALSE
        ELSE TRUE

\* list_runs() whose loop lets a failure of get_run_info() propagate
ListRunsOut_Raising(st, type, kwargs) ==
    IF type # NoType \/ DOMAIN kwargs # {}
    THEN IF \E key \in DOMAIN st.docs : GetRunInfo(st, key).err # "none"
         THEN [err |-> "ValueError:version", keys |-> <<>>]
         ELSE [err |-> "none",
               keys |-> Sorted({key \in DOMAIN st.docs : Appended(st, key, type, kwargs)})]
    ELSE [err |-> "none", keys |-> Sorted(DOMAIN st.docs)]

\* list_runs(samples, type, **kwargs): the sorted list it returns
ListRunsOut(st, type, kwargs) ==
    IF type # NoType \/ DOMAIN kwargs # {}
    THEN [err |-> "none",
          keys |-> Sorted({key \in DOMAIN st.docs : Appended(st, key, type, kwargs)})]
    ELSE [err |-> "none", keys |-> Sorted(DOMAIN st.docs)]

\* validate_run() that lets the error of loading the existing info escape
ValidateRun_LoadRaises(st, key, config, overwrite) ==
    IF ~is_str(key) \/ ~isidentifier(key) THEN "ValueError:key"
    ELSE IF key \notin ListRuns(st) THEN "none"
    ELSE IF ~overwrite THEN "ValueError:exists"
    ELSE LET existing_info == GetRunInfo(st, key)
         IN  IF existing_info.err # "none" THEN existing_info.err
             ELSE IF config.type # existing_info.config.type THEN "ValueError:type"
             ELSE "none"

\* validate_run() without the check of the overwrite flag
ValidateRun_NoConflict(st, key, config, overwrite) ==
    IF ~is_str(key) \/ ~isidentifier(key) THEN "ValueError:key"
    ELSE IF key \notin ListRuns(st) THEN "none"
    ELSE LET existing_info == GetRunInfo(st, key)
         IN  IF existing_info.err # "none" THEN "none"
             ELSE IF config.type # existing_info.config.type THEN "ValueError:type"
             ELSE "none"

\* validate_run() comparing the config with itself instead of the existing one
ValidateRun_NoType(st, key, config, overwrite) ==
    IF ~is_str(key) \/ ~isidentifier(key) THEN "ValueError:key"
    ELSE IF key \notin ListRuns(st) THEN "none"
    ELSE IF ~overwrite THEN "ValueError:exists"
    ELSE LET existing_info == GetRunInfo(st, key)
         IN  IF existing_info.err # "none" THEN "none"
             ELSE IF config.type # config.type THEN "ValueError:type"
             ELSE "none"

\* validate_run(): the error it raises, "none" when it returns
ValidateRun(st, key, config, overwrite) ==
    IF ~is_str(key) \/ ~isidentifier(key) THEN "ValueError:key"
    ELSE IF key \notin ListRuns(st) THEN "none"
    ELSE IF ~overwrite THEN "ValueError:exists"
    ELSE LET existing_info == GetRunInfo(st, key)
         IN  IF existing_info.err # "none" THEN "none"
             ELSE IF config.type # existing_info.config.type THEN "ValueError:type"
             ELSE "none"

\* delete_run() that leaves the results cache alone
DeleteRunIn_KeepCache(st, key) ==
    LET run_doc == st.docs[key]
    IN  State(Pop(st.docs, key),
              IF run_doc.results # NoBlob THEN FsDelete(st.fs, run_doc.results) ELSE st.fs,
              st.cache)

\* delete_run() past _get_run_doc() and the cleanup hook: the document is
\* popped, a cached results object is popped, its results file is deleted
DeleteRunIn(st, key) ==
    LET run_doc == st.docs[key]
    IN  State(Pop(st.docs, key),
              IF run_doc.results # NoBlob THEN FsDelete(st.fs, run_doc.results) ELSE st.fs,
              Pop(st.cache, key))

\* the cached object delete_run() pops, with its _key set to None
Detached(st, key) ==
    IF key \in DOMAIN st.cache /\ ~IsNone(st.cache[key])
    THEN [st.cache[key] EXCEPT !.key = NoneKey]
    ELSE NoneResults

\* the try block of delete_run() and update_run_key(): "skipped" when the
\* run info does not load, so that the hook is never called; otherwise the
\* hook is called and returns or raises
HookOutcomes(st, key) ==
    IF GetRunInfo(st, key).err # "none" THEN {"skipped"} ELSE {"ok", "raised"}

\* save_run_info() that deletes an existing run and returns before storing
\* the new document
SaveRunInfoIn_DeleteOnly(st, key, version, timestamp, config, view) ==
    LET run_doc == [key |-> key, version |-> version, timestamp |-> timestamp,
                    config |-> SerializeConfig(config), view_stages |-> view,
                    results |-> NoBlob]
    IN  IF key \in ListRuns(st) THEN DeleteRunIn(st, key)
        ELSE State(Put(st.docs, key, run_doc), st.fs, st.cache)

\* save_run_info() that replaces the document in place, keeping the results
\* of an existing run and its cache entry
SaveRunInfoIn_InPlace(st, key, version, timestamp, config, view) ==
    LET run_doc == [key |-> key, version |-> version, timestamp |-> timestamp,
                    config |-> SerializeConfig(config), view_stages |-> view,
                    results |-> IF key \in ListRuns(st) THEN st.docs[key].results
                                ELSE NoBlob]
    IN  State(Put(st.docs, key, run_doc), st.fs, st.cache)

\* save_run_info(overwrite=True): an existing run of the key is deleted, then
\* a RunDocument without results is stored under the key
SaveRunInfoIn(st, key, version, timestamp, config, view) ==
    LET st1 == IF key \in ListRuns(st) THEN DeleteRunIn(st, key) ELSE st
        run_doc == [key |-> key, version |-> version, timestamp |-> timestamp,
                    config |-> SerializeConfig(config), view_stages |-> view,
                    results |-> NoBlob]
    IN  State(Put(st1.docs, key, run_doc), st1.fs, st1.cache)

Configs == [type : ConfigClasses]

\* Field names are strings, modelled as their characters.  get_fields() of
\* the two run classes: a run of ARun touches the field "f", a run of BRun
\* the embedded field "f.x" and the field "fx"
FieldF == <<"f">>
FieldFX == <<"f", ".", "x">>
FieldFx == <<"f", "x">>

GetFields(run_cls, key) ==
    IF run_cls = "ARun" THEN <<FieldF>> ELSE <<FieldFX, FieldFx>>

\* _get_run_fields(): the run info is loaded, which may raise
GetRunFields(st, key) ==
    LET run_info == GetRunInfo(st, key)
    IN  IF run_info.err # "none" THEN [err |-> run_info.err, fields |-> <<>>]
        ELSE [err |-> "none", fields |-> GetFields(RunCls(run_info.config), key)]

\* str.startswith()
StartsWith(s, prefix) ==
    Len(s) >= Len(prefix) /\ SubSeq(s, 1, Len(prefix)) = prefix

\* samples._get_root_fields(): the part of each field before its first dot,
\* each root once
RECURSIVE Root(_)
Root(field) ==
    IF field = <<>> \/ Head(field) = "." THEN <<>>
    ELSE <<Head(field)>> \o Root(Tail(field))

RECURSIVE GetRootFields(_)
GetRootFields(fields) ==
    IF fields = <<>> THEN <<>>
    ELSE LET rest == GetRootFields(Tail(fields))
             root == Root(Head(fields))
         IN  IF \E i \in DOMAIN rest : rest[i] = root THEN rest ELSE <<root>> \o rest

\* any(field.startswith(r + ".") for r in root_fields), and the same test
\* without the dot
HidesField_AnyPrefix(root_fields, field) ==
    \E i \in DOMAIN root_fields : StartsWith(field, root_fields[i])

HidesField(root_fields, field) ==
    \E i \in DOMAIN root_fields : StartsWith(field, root_fields[i] \o <<".">>)

\* the fields of a list that are appended to exclude_fields
RECURSIVE Hidden(_, _)
Hidden(root_fields, fields) ==
    IF fields = <<>> THEN <<>>
    ELSE (IF HidesField(root_fields, Head(fields)) THEN <<Head(fields)>> ELSE <<>>)
         \o Hidden(root_fields, Tail(fields))

\* the loop of load_run_view() over list_runs(): the fields to exclude, or
\* the error of the first other run whose info does not load
RECURSIVE ExcludeFields(_, _, _, _)
ExcludeFields(st, key, root_fields, keys) ==
    IF keys = <<>> THEN [err |-> "none", fields |-> <<>>]
    ELSE IF Head(keys) = key THEN ExcludeFields(st, key, root_fields, Tail(keys))
    ELSE LET run_fields == GetRunFields(st, Head(keys))
             rest == ExcludeFields(st, key, root_fields, Tail(keys))
         IN  IF run_fields.err # "none" THEN [err |-> run_fields.err, fields |-> <<>>]
             ELSE IF rest.err # "none" THEN rest
             ELSE [err |-> "none",
                   fields |-> Hidden(root_fields, run_fields.fields) \o rest.fields]

\* A view: the stages it was built from, and the lists given to
\* select_fields() and exclude_fields() (NoFields when the stage was not added)
NoFields == <<<<"%None">>>>
View(stages, selected, excluded) ==
    [stages |-> stages, selected |-> selected, excluded |-> excluded]
NoView == View(<<"%None">>, NoFields, NoFields)

\* load_run_view(samples, key, select_fields)
LoadRunViewIn(st, key, select_fields) ==
    IF key \notin DOMAIN st.docs THEN [err |-> "ValueError:nokey", view |-> NoView]
    ELSE LET view == View(st.docs[key].view_stages, NoFields, NoFields)
             fields == GetRunFields(st, key)
             root_fields == GetRootFields(fields.fields)
             exclude_fields ==
                 ExcludeFields(st, key, root_fields, ListRunsOut(st, NoType, EmptyDict).keys)
         IN  IF ~select_fields THEN [err |-> "none", view |-> view]
             ELSE IF fields.err # "none" THEN [err |-> fields.err, view |-> NoView]
             ELSE IF exclude_fields.err # "none"
             THEN [err |-> exclude_fields.err, view |-> NoView]
             ELSE [err |-> "none",
                   view |-> View(view.stages, root_fields,
                                 IF exclude_fields.fields # <<>>
                                 THEN exclude_fields.fields ELSE NoFields)]

\* The record of a call: the operation and its key arguments and flags (a
\* flag the operation does not take is at its default), the error raised
\* ("none" when the call returned), the RunResults object passed in, returned
\* or detached from the cache, and what became of the rename/cleanup hook;
\* for list_runs() its type and config filters and the list it returned; for
\* a step of a call interleaved with others the calling thread (0 otherwise);
\* for load_run_view() its select_fields flag and the view it returned
Call(op, key, new, overwrite, cache, err, results, hook) ==
    [op |-> op, key |-> key, new |-> new, overwrite |-> overwrite, cache |-> cache,
     err |-> err, results |-> results, hook |-> hook,
     type |-> NoType, kwargs |-> EmptyDict, listed |-> <<>>, caller |-> 0,
     select_fields |-> FALSE, view |-> NoView]

\* the threads that call register_run() concurrently, and the position of
\* one that is not inside a call
Callers == {1, 2}
Idle == [pc |-> "idle", key |-> NoneKey, config |-> [type |-> "?"], overwrite |-> TRUE,
         err |-> "none"]

\* a whole call has run, interleaved with no other: `last` records it, and
\* the calls in progress are where they were
Done(op, key, new, overwrite, cache, err, results, hook) ==
    /\ last' = Call(op, key, new, overwrite, cache, err, results, hook)
    /\ UNCHANGED <<callers, node>>

Becomes(st) ==
    /\ run_docs' = st.docs
    /\ gridfs' = st.fs
    /\ results_cache' = st.cache

----------------------------------------------------------------------------
(* The 3D objects of fiftyone/core/threed: meshes and point clouds.  A     *)
(* path is a string, modelled as its sequence of characters.               *)

\* str.lower() on the characters of the paths
LowerChar(c) ==
    CASE c = "B" -> "b" [] c = "C" -> "c" [] c = "D" -> "d" [] c = "F" -> "f"
      [] c = "G" -> "g" [] c = "J" -> "j" [] c = "L" -> "l" [] c = "M" -> "m"
      [] c = "O" -> "o" [] c = "P" -> "p" [] c = "S" -> "s" [] c = "T" -> "t"
      [] c = "X" -> "x" [] c = "Y" -> "y" [] OTHER -> c

Lower(path) == [i \in 1..Len(path) |-> LowerChar(path[i])]

\* str.endswith(suffix)
EndsWith(path, suffix) ==
    /\ Len(path) >= Len(suffix)
    /\ SubSeq(path, Len(path) - Len(suffix) + 1, Len(path)) = suffix

DotObj == <<".", "o", "b", "j">>
DotMtl == <<".", "m", "t", "l">>
DotFbx == <<".", "f", "b", "x">>
DotGltf == <<".", "g", "l", "t", "f">>
DotGlb == <<".", "g", "l", "b">>
DotPly == <<".", "p", "l", "y">>
DotStl == <<".", "s", "t", "l">>
DotPcd == <<".", "p", "c", "d">>

\* None where a path is optional
NonePath == <<"%None">>

\* the attributes of an object that was not constructed
NoAttrs == [a \in {} |-> NonePath]

\* the outcome of a constructor: the error raised ("none" when it returned)
\* and the attributes set on the object
Raised(err) == [cls |-> "none", err |-> err, attrs |-> NoAttrs]
Built(cls, attrs) == [cls |-> cls, err |-> "none", attrs |-> attrs]

\* ObjMesh.__init__ comparing the path as given with the suffix
ObjMesh_CaseSensitive(name, obj_path, mtl_path) ==
    IF ~EndsWith(obj_path, DotObj)
    THEN Raised("ValueError")
    ELSE IF mtl_path # NonePath /\ ~EndsWith(mtl_path, DotMtl)
    THEN Raised("ValueError")
    ELSE Built("ObjMesh", [name |-> name, obj_path |-> obj_path, mtl_path |-> mtl_path])

\* ObjMesh.__init__
ObjMesh(name, obj_path, mtl_path) ==
    IF ~EndsWith(Lower(obj_path), DotObj)
    THEN Raised("ValueError")
    ELSE IF mtl_path # NonePath /\ ~EndsWith(mtl_path, DotMtl)
    THEN Raised("ValueError")
    ELSE Built("ObjMesh", [name |-> name, obj_path |-> obj_path, mtl_path |-> mtl_path])

\* FBXMesh.__init__: the path is kept in the attribute gltf_path
FBXMesh(name, fbx_path) ==
    IF ~EndsWith(Lower(fbx_path), DotFbx)
    THEN Raised("ValueError")
    ELSE Built("FBXMesh", [name |-> name, gltf_path |-> fbx_path])

\* GLTFMesh.__init__
GLTFMesh(name, gltf_path) ==
    IF ~(EndsWith(Lower(gltf_path), DotGltf) \/ EndsWith(Lower(gltf_path), DotGlb))
    THEN Raised("ValueError")
    ELSE Built("GLTFMesh", [name |-> name, gltf_path |-> gltf_path])

\* PlyMesh.__init__
PlyMesh(name, ply_path) ==
    IF ~EndsWith(Lower(ply_path), DotPly)
    THEN Raised("ValueError")
    ELSE Built("PlyMesh", [name |-> name, ply_path |-> ply_path])

\* StlMesh.__init__
StlMesh(name, stl_path) ==
    IF ~EndsWith(Lower(stl_path), DotStl)
    THEN Raised("ValueError")
    ELSE Built("StlMesh", [name |-> name, stl_path |-> stl_path])

\* PointCloud.__init__ with the default material
PointCloud(name, pcd_path, flag_for_projection) ==
    IF ~EndsWith(Lower(pcd_path), DotPcd)
    THEN Raised("ValueError")
    ELSE Built("PointCloud",
               [name |-> name, pcd_path |-> pcd_path,
                default_material |-> <<"PointCloudMaterial">>,
                flag_for_projection |-> flag_for_projection])

\* Light.__init__: the name is the class name; numbers are in tenths
COLOR_DEFAULT_WHITE == "#ffffff"

Light(cls, color, intensity) ==
    Built(cls, [name |-> cls, color |-> color, intensity |-> intensity])

\* AmbientLight.__init__
AmbientLight(intensity, color) == Light("AmbientLight", color, intensity)

\* DirectionalLight.__init__
DirectionalLight(target, color, intensity) ==
    LET light == Light("DirectionalLight", color, intensity)
    IN  Built(light.cls, [target |-> target] @@ light.attrs)

\* PointLight.__init__
PointLight(distance, decay, color, intensity) ==
    LET light == Light("PointLight", color, intensity)
    IN  Built(light.cls, [distance |-> distance, decay |-> decay] @@ light.attrs)

\* SpotLight.__init__: a target that is not given is the origin
Origin == <<0, 0, 0>>

SpotLight(target, distance, decay, angle, penumbra, color, intensity) ==
    LET light == Light("SpotLight", color, intensity)
    IN  Built(light.cls,
              [target |-> IF target = NonePath THEN Origin ELSE target,
               distance |-> distance, decay |-> decay, angle |-> angle,
               penumbra |-> penumbra] @@ light.attrs)

\* The field names of the emitted dicts, as the characters in the source
K_obj_path == <<"o", "b", "j", "_", "p", "a", "t", "h">>
K_mtl_path == <<"m", "t", "l", "_", "p", "a", "t", "h">>
K_fbx_path == <<"f", "b", "x", "_", "p", "a", "t", "h">>
K_gltf_path == <<"g", "l", "t", "f", "_", "p", "a", "t", "h">>
K_ply_path == <<"p", "l", "y", "_", "p", "a", "t", "h">>
K_stl_path == <<"s", "t", "l", "_", "p", "a", "t", "h">>
K_pcdPath == <<"p", "c", "d", "P", "a", "t", "h">>
K_defaultMaterial ==
    <<"d", "e", "f", "a", "u", "l", "t", "M", "a", "t", "e", "r", "i", "a", "l">>
K_flagForProjection ==
    <<"f", "l", "a", "g", "F", "o", "r", "P", "r", "o", "j", "e", "c", "t", "i", "o", "n">>
K_preTransformedPcdPath ==
    <<"p", "r", "e", "T", "r", "a", "n", "s", "f", "o", "r", "m", "e", "d",
      "P", "c", "d", "P", "a", "t", "h">>
K_color == <<"c", "o", "l", "o", "r">>
K_intensity == <<"i", "n", "t", "e", "n", "s", "i", "t", "y">>
K_target == <<"t", "a", "r", "g", "e", "t">>
K_distance == <<"d", "i", "s", "t", "a", "n", "c", "e">>
K_decay == <<"d", "e", "c", "a", "y">>
K_angle == <<"a", "n", "g", "l", "e">>
K_penumbra == <<"p", "e", "n", "u", "m", "b", "r", "a">>

\* Light._to_dict_extra; the part of the Object3D base is taken as empty
LightToDictExtra(obj) ==
    K_color :> obj.attrs.color @@ K_intensity :> obj.attrs.intensity

\* _to_dict_extra of the class of obj
ToDictExtra(obj) ==
    CASE obj.cls = "ObjMesh" ->
           K_obj_path :> obj.attrs.obj_path @@ K_mtl_path :> obj.attrs.mtl_path
      [] obj.cls = "FBXMesh" -> K_fbx_path :> obj.attrs.gltf_path
      [] obj.cls = "GLTFMesh" -> K_gltf_path :> obj.attrs.gltf_path
      [] obj.cls = "PlyMesh" -> K_ply_path :> obj.attrs.ply_path
      [] obj.cls = "StlMesh" -> K_stl_path :> obj.attrs.stl_path
      [] obj.cls = "PointCloud" ->
           LET r == K_pcdPath :> obj.attrs.pcd_path
                    @@ K_defaultMaterial :> obj.attrs.default_material
                    @@ K_flagForProjection :> obj.attrs.flag_for_projection
           IN  IF "_pre_transformed_pcd_path" \in DOMAIN obj.attrs
               THEN r @@ K_preTransformedPcdPath
                           :> obj.attrs["_pre_transformed_pcd_path"]
               ELSE r
      [] obj.cls = "AmbientLight" -> LightToDictExtra(obj)
      [] obj.cls = "DirectionalLight" ->
           LightToDictExtra(obj) @@ K_target :> obj.attrs.target
      [] obj.cls = "PointLight" ->
           LightToDictExtra(obj) @@ K_distance :> obj.attrs.distance
                                 @@ K_decay :> obj.attrs.decay
      [] obj.cls = "SpotLight" ->
           LightToDictExtra(obj) @@ K_target :> obj.attrs.target
                                 @@ K_distance :> obj.attrs.distance
                                 @@ K_decay :> obj.attrs.decay
                                 @@ K_angle :> obj.attrs.angle
                                 @@ K_penumbra :> obj.attrs.penumbra

\* The call cls(name, **kwargs) of a mesh constructor: the keywords bind
\* the parameters of the signature by name; a required parameter left
\* unbound, or a keyword that no signature down to the base takes, is a
\* TypeError
Parameters(cls) ==
    CASE cls = "ObjMesh" -> [required |-> {K_obj_path}, optional |-> {K_mtl_path}]
      [] cls = "FBXMesh" -> [required |-> {K_fbx_path}, optional |-> {}]
      [] cls = "GLTFMesh" -> [required |-> {K_gltf_path}, optional |-> {}]
      [] cls = "PlyMesh" -> [required |-> {K_ply_path}, optional |-> {}]
      [] cls = "StlMesh" -> [required |-> {K_stl_path}, optional |-> {}]

MeshFromKwargs_AttributeNames(cls, name, kwargs) ==
    IF ~(DOMAIN kwargs \subseteq {K_obj_path, K_mtl_path, K_gltf_path, K_ply_path,
                                  K_stl_path})
    THEN Raised("TypeError")
    ELSE CASE cls = "ObjMesh" ->
                ObjMesh(name, kwargs[K_obj_path],
                        IF K_mtl_path \in DOMAIN kwargs
                        THEN kwargs[K_mtl_path] ELSE NonePath)
           [] cls = "FBXMesh" ->
                IF K_gltf_path \in DOMAIN kwargs
                THEN FBXMesh(name, kwargs[K_gltf_path]) ELSE Raised("TypeError")
           [] cls = "GLTFMesh" -> GLTFMesh(name, kwargs[K_gltf_path])
           [] cls = "PlyMesh" -> PlyMesh(name, kwargs[K_ply_path])
           [] cls = "StlMesh" -> StlMesh(name, kwargs[K_stl_path])

MeshFromKwargs(cls, name, kwargs) ==
    LET params == Parameters(cls)
    IN  IF ~(/\ params.required \subseteq DOMAIN kwargs
             /\ DOMAIN kwargs \subseteq params.required \cup params.optional)
        THEN Raised("TypeError")
        ELSE CASE cls = "ObjMesh" ->
                    ObjMesh(name, kwargs[K_obj_path],
                            IF K_mtl_path \in DOMAIN kwargs
                            THEN kwargs[K_mtl_path] ELSE NonePath)
               [] cls = "FBXMesh" -> FBXMesh(name, kwargs[K_fbx_path])
               [] cls = "GLTFMesh" -> GLTFMesh(name, kwargs[K_gltf_path])
               [] cls = "PlyMesh" -> PlyMesh(name, kwargs[K_ply_path])
               [] cls = "StlMesh" -> StlMesh(name, kwargs[K_stl_path])

\* The paths given to the constructors: a file name of up to MaxStem
\* characters and an extension, in lower, upper or mixed case, or none
RECURSIVE Stem(_)
Stem(n) == IF n = 0 THEN <<>> ELSE <<"a">> \o Stem(n - 1)

Stems == {Stem(n) : n \in 0..MaxStem}

Extensions ==
    {DotObj, DotMtl, DotFbx, DotGltf, DotGlb, DotPly, DotStl, DotPcd,
     <<".", "O", "B", "J">>, <<".", "O", "b", "j">>, <<".", "M", "T", "L">>,
     <<".", "F", "B", "X">>, <<".", "G", "L", "T", "F">>, <<".", "G", "l", "b">>,
     <<".", "P", "L", "Y">>, <<".", "S", "T", "L">>, <<".", "P", "C", "D">>,
     <<>>, <<"o", "b", "j">>, DotObj \o <<".", "x">>}

Paths == {stem \o ext : stem \in Stems, ext \in Extensions}

\* the optional material paths given to ObjMesh
MtlPaths == {NonePath} \cup {<<"a">> \o ext : ext \in {DotMtl, <<".", "M", "T", "L">>, DotObj}}

\* the constructor call that `node` records, with the arguments a class
\* does not take at their defaults
NoDict == <<"%", "N", "o", "n", "e">> :> 0

New(cls, path, mtl_path, flag, obj) ==
    [cls |-> cls, path |-> path, mtl_path |-> mtl_path, flag |-> flag, obj |-> obj,
     dict |-> NoDict, rebuilt |-> Raised("none")]

NoNode == New("none", NonePath, NonePath, FALSE, Raised("none"))

\* the arguments given to the light constructors, the defaults among them
Intensities == {1, 10}
Targets == {NonePath, Origin, <<0, 10, 0>>}
LightClasses == {"AmbientLight", "DirectionalLight", "PointLight", "SpotLight"}

----------------------------------------------------------------------------
(* Initial states: a dataset as loaded, holding under key "a" at most one  *)
(* run registered in an earlier session, possibly by an older version of   *)
(* the library or with a config class the running library does not have;   *)
(* the results cache of the new session is empty.                          *)

StoredDocs(key, versions, blobs) ==
    [key : {key}, version : versions, timestamp : {0},
     config : {[method |-> "a", cls |-> c] : c \in {"ARunConfig", "GoneConfig"}},
     view_stages : {<<>>}, results : blobs]

\* the GridFS files that the run documents refer to
FsOf(docs) ==
    LET ks == {k \in DOMAIN docs : docs[k].results # NoBlob}
        bs == {docs[k].results : k \in ks}
    IN  [b \in bs |-> Cardinality({k \in ks : docs[k].results = b})]

InitWith(stored) ==
    /\ run_docs \in {EmptyDict} \cup {Put(EmptyDict, doc.key, doc) : doc \in stored}
    /\ gridfs = FsOf(run_docs)
    /\ results_cache = EmptyDict
    /\ last = Call("init", NoneKey, NoneKey, TRUE, TRUE, "none", NoneResults, "none")
    /\ callers = [p \in Callers |-> Idle]
    /\ node = NoNode

Init == InitWith(StoredDocs(KeyA, {OldVersion}, {NoBlob}))

InitResults ==
    InitWith(StoredDocs(KeyA, Versions,
                        {NoBlob, EncodeResults([cls |-> BaseResults, data |-> 0])}))

----------------------------------------------------------------------------
(* Operations *)

\* register_run() that validates the key before it tests it for None
RegisterRun_ValidateFirst(key, config, overwrite, timestamp, view) ==
    LET err == ValidateRun(Current, key, config, overwrite)
    IN  IF key = NoneKey \/ err # "none"
        THEN /\ Done("register_run", key, NoneKey, overwrite, TRUE, err,
                     NoneResults, "none")
             /\ UNCHANGED <<run_docs, gridfs, results_cache>>
        ELSE \E hook \in (IF key \in ListRuns(Current)
                          THEN HookOutcomes(Current, key) ELSE {"none"}) :
               /\ Becomes(SaveRunInfoIn(Current, key, VERSION, timestamp, config, view))
               /\ Done("register_run", key, NoneKey, overwrite, TRUE, "none",
                       Detached(Current, key), hook)

\* register_run(samples, key, overwrite)
RegisterRun(key, config, overwrite, timestamp, view) ==
    LET err == IF key = NoneKey THEN "none"
               ELSE ValidateRun(Current, key, config, overwrite)
    IN  IF key = NoneKey \/ err # "none"
        THEN /\ Done("register_run", key, NoneKey, overwrite, TRUE, err,
                     NoneResults, "none")
             /\ UNCHANGED <<run_docs, gridfs, results_cache>>
        ELSE \E hook \in (IF key \in ListRuns(Current)
                          THEN HookOutcomes(Current, key) ELSE {"none"}) :
               /\ Becomes(SaveRunInfoIn(Current, key, VERSION, timestamp, config, view))
               /\ Done("register_run", key, NoneKey, overwrite, TRUE, "none",
                       Detached(Current, key), hook)

\* register_run() of a key that is not None, by thread p, up to the return
\* of validate_run(): the call
\* raises what validate_run() raises, and is otherwise about to build the run
\* info and save it
RegisterValidate(p, key, config, overwrite) ==
    LET err == ValidateRun(Current, key, config, overwrite)
    IN  /\ callers[p].pc # "validated"
        /\ callers' = [callers EXCEPT ![p] =
                         [pc |-> IF err = "none" THEN "validated" ELSE "done",
                          key |-> key, config |-> config, overwrite |-> overwrite,
                          err |-> err]]
        /\ last' = [Call("register_run:validate", key, NoneKey, overwrite, TRUE, err,
                         NoneResults, "none") EXCEPT !.caller = p]
        /\ UNCHANGED <<run_docs, gridfs, results_cache, node>>

\* the rest of register_run() with a save_run_info() that is given the
\* caller's overwrite flag
RegisterSave_Rechecking(p, timestamp, view) ==
    LET c == callers[p]
    IN  /\ c.pc = "validated"
        /\ IF c.key \in ListRuns(Current) /\ ~c.overwrite
           THEN /\ callers' = [callers EXCEPT ![p].pc = "done",
                                              ![p].err = "ValueError:exists"]
                /\ last' = [Call("register_run", c.key, NoneKey, c.overwrite, TRUE,
                                 "ValueError:exists", NoneResults, "none")
                            EXCEPT !.caller = p]
                /\ UNCHANGED <<run_docs, gridfs, results_cache, node>>
           ELSE \E hook \in (IF c.key \in ListRuns(Current)
                             THEN HookOutcomes(Current, c.key) ELSE {"none"}) :
                  /\ Becomes(SaveRunInfoIn(Current, c.key, VERSION, timestamp, c.config,
                                           view))
                  /\ callers' = [callers EXCEPT ![p].pc = "done"]
                  /\ last' = [Call("register_run", c.key, NoneKey, c.overwrite, TRUE,
                                   "none", Detached(Current, c.key), hook)
                              EXCEPT !.caller = p]
                  /\ UNCHANGED node

\* the rest of register_run() by thread p: the run info is built with the
\* version and the time of this step and passed to save_run_info(), whose
\* overwrite flag is left at True
RegisterSave(p, timestamp, view) ==
    LET c == callers[p]
    IN  /\ c.pc = "validated"
        /\ \E hook \in (IF c.key \in ListRuns(Current)
                         THEN HookOutcomes(Current, c.key) ELSE {"none"}) :
              /\ Becomes(SaveRunInfoIn(Current, c.key, VERSION, timestamp, c.config, view))
              /\ callers' = [callers EXCEPT ![p].pc = "done"]
              /\ last' = [Call("register_run", c.key, NoneKey, c.overwrite, TRUE, "none",
                               Detached(Current, c.key), hook)
                          EXCEPT !.caller = p]
              /\ UNCHANGED node

\* delete_run() that looks the run up with a default, as its pops do
DeleteRun_Silent(key) ==
    IF key \notin DOMAIN run_docs
    THEN /\ Done("delete_run", key, NoneKey, TRUE, TRUE, "none", NoneResults, "skipped")
         /\ UNCHANGED <<run_docs, gridfs, results_cache>>
    ELSE \E hook \in HookOutcomes(Current, key) :
           /\ Becomes(DeleteRunIn(Current, key))
           /\ Done("delete_run", key, NoneKey, TRUE, TRUE, "none",
                   Detached(Current, key), hook)

\* delete_run(samples, key)
DeleteRun(key) ==
    IF key \notin DOMAIN run_docs
    THEN /\ Done("delete_run", key, NoneKey, TRUE, TRUE, "ValueError:nokey",
                 NoneResults, "none")
         /\ UNCHANGED <<run_docs, gridfs, results_cache>>
    ELSE \E hook \in HookOutcomes(Current, key) :
           /\ Becomes(DeleteRunIn(Current, key))
           /\ Done("delete_run", key, NoneKey, TRUE, TRUE, "none",
                   Detached(Current, key), hook)

\* validate_run() that drops an existing run it allows to be overwritten
ValidateRunCall_Deleting(key, config, overwrite) ==
    LET err == ValidateRun(Current, key, config, overwrite)
    IN  /\ Done("validate_run", key, NoneKey, overwrite, TRUE, err,
                NoneResults, "none")
        /\ IF err = "none" /\ key \in ListRuns(Current)
           THEN Becomes(DeleteRunIn(Current, key))
           ELSE UNCHANGED <<run_docs, gridfs, results_cache>>

\* validate_run(samples, key, overwrite), called on its own
ValidateRunCall(key, config, overwrite) ==
    /\ Done("validate_run", key, NoneKey, overwrite, TRUE,
            ValidateRun(Current, key, config, overwrite), NoneResults, "none")
    /\ UNCHANGED <<run_docs, gridfs, results_cache>>

\* update_run_key() that leaves a cached results object under the old key
UpdateRunKeyIn_StaleCache(st, key, new_key) ==
    LET run_doc == [st.docs[key] EXCEPT !.key = new_key]
    IN  State(Put(Pop(st.docs, key), new_key, run_doc), st.fs, st.cache)

\* update_run_key() that stores the document under new_key without updating
\* its key field
UpdateRunKeyIn_KeepKey(st, key, new_key) ==
    LET run_doc == st.docs[key]
        run_results == IF key \in DOMAIN st.cache THEN st.cache[key] ELSE NoneResults
        cache1 == Pop(st.cache, key)
    IN  State(Put(Pop(st.docs, key), new_key, run_doc),
              st.fs,
              IF ~IsNone(run_results)
              THEN Put(cache1, new_key, [run_results EXCEPT !.key = new_key])
              ELSE cache1)

\* update_run_key() past the existence check and the rename hook: the
\* document is popped and stored under new_key with its key field updated,
\* and a cached results object moves with it
UpdateRunKeyIn(st, key, new_key) ==
    LET run_doc == [st.docs[key] EXCEPT !.key = new_key]
        run_results == IF key \in DOMAIN st.cache THEN st.cache[key] ELSE NoneResults
        cache1 == Pop(st.cache, key)
    IN  State(Put(Pop(st.docs, key), new_key, run_doc),
              st.fs,
              IF ~IsNone(run_results)
              THEN Put(cache1, new_key, [run_results EXCEPT !.key = new_key])
              ELSE cache1)

\* update_run_key() without the check that new_key is free
UpdateRunKey_NoCheck(key, new_key) ==
    IF key \notin DOMAIN run_docs
    THEN /\ Done("update_run_key", key, new_key, TRUE, TRUE, "KeyError",
                 NoneResults, "skipped")
         /\ UNCHANGED <<run_docs, gridfs, results_cache>>
    ELSE \E hook \in HookOutcomes(Current, key) :
           LET st == UpdateRunKeyIn(Current, key, new_key)
           IN  /\ Becomes(st)
               /\ Done("update_run_key", key, new_key, TRUE, TRUE, "none",
                       IF new_key \in DOMAIN st.cache THEN st.cache[new_key]
                       ELSE NoneResults,
                       hook)

\* update_run_key() that lets a failure of its try block propagate
UpdateRunKey_HookPropagates(key, new_key) ==
    IF new_key \in ListRuns(Current)
    THEN /\ Done("update_run_key", key, new_key, TRUE, TRUE, "ValueError:exists",
                 NoneResults, "none")
         /\ UNCHANGED <<run_docs, gridfs, results_cache>>
    ELSE IF key \notin DOMAIN run_docs
    THEN /\ Done("update_run_key", key, new_key, TRUE, TRUE, "KeyError",
                 NoneResults, "skipped")
         /\ UNCHANGED <<run_docs, gridfs, results_cache>>
    ELSE \E hook \in HookOutcomes(Current, key) :
           LET st == UpdateRunKeyIn(Current, key, new_key)
           IN  IF hook # "ok"
               THEN /\ Done("update_run_key", key, new_key, TRUE, TRUE, "Exception",
                            NoneResults, hook)
                    /\ UNCHANGED <<run_docs, gridfs, results_cache>>
               ELSE /\ Becomes(st)
                    /\ Done("update_run_key", key, new_key, TRUE, TRUE, "none",
                            IF new_key \in DOMAIN st.cache THEN st.cache[new_key]
                            ELSE NoneResults,
                            hook)

\* update_run_key(samples, key, new_key)
UpdateRunKey(key, new_key) ==
    IF new_key \in ListRuns(Current)
    THEN /\ Done("update_run_key", key, new_key, TRUE, TRUE, "ValueError:exists",
                 NoneResults, "none")
         /\ UNCHANGED <<run_docs, gridfs, results_cache>>
    ELSE IF key \notin DOMAIN run_docs
    THEN \* get_run_info() fails inside the try block, then run_docs.pop(key) raises
         /\ Done("update_run_key", key, new_key, TRUE, TRUE, "KeyError",
                 NoneResults, "skipped")
         /\ UNCHANGED <<run_docs, gridfs, results_cache>>
    ELSE \E hook \in HookOutcomes(Current, key) :
           LET st == UpdateRunKeyIn(Current, key, new_key)
           IN  /\ Becomes(st)
               /\ Done("update_run_key", key, new_key, TRUE, TRUE, "none",
                       IF new_key \in DOMAIN st.cache THEN st.cache[new_key]
                       ELSE NoneResults,
                       hook)

\* save_run_results() that writes the new file without deleting the old one
SaveRunResultsIn_NoDelete(st, key, run_results, overwrite, cache) ==
    LET run_doc == st.docs[key]
    IN  IF run_doc.results # NoBlob /\ ~overwrite
        THEN [err |-> "ValueError:hasresults", st |-> st]
        ELSE LET results_bytes == EncodeResults(SerializeResults(run_results))
                 blob == IF IsNone(run_results) THEN NoBlob ELSE results_bytes
                 fs2 == IF IsNone(run_results) THEN st.fs ELSE FsPut(st.fs, results_bytes)
             IN  [err |-> "none",
                  st |-> State([st.docs EXCEPT ![key].results = blob],
                               fs2,
                               IF cache THEN Put(st.cache, key, run_results)
                               ELSE st.cache)]

\* save_run_results() on a registered key: the error it raises and the state
\* it leaves
SaveRunResultsIn(st, key, run_results, overwrite, cache) ==
    LET run_doc == st.docs[key]
    IN  IF run_doc.results # NoBlob /\ ~overwrite
        THEN [err |-> "ValueError:hasresults", st |-> st]
        ELSE LET fs1 == IF run_doc.results # NoBlob
                        THEN FsDelete(st.fs, run_doc.results) ELSE st.fs
                 results_bytes == EncodeResults(SerializeResults(run_results))
                 blob == IF IsNone(run_results) THEN NoBlob ELSE results_bytes
                 fs2 == IF IsNone(run_results) THEN fs1 ELSE FsPut(fs1, results_bytes)
             IN  [err |-> "none",
                  st |-> State([st.docs EXCEPT ![key].results = blob],
                               fs2,
                               IF cache THEN Put(st.cache, key, run_results)
                               ELSE st.cache)]

\* save_run_results() that writes the cache before it looks up the run
SaveRunResults_CacheFirst(key, run_results, overwrite, cache) ==
    IF key = NoneKey
    THEN /\ Done("save_run_results", key, NoneKey, overwrite, cache, "none",
                 run_results, "none")
         /\ UNCHANGED <<run_docs, gridfs, results_cache>>
    ELSE IF key \notin DOMAIN run_docs
    THEN /\ Done("save_run_results", key, NoneKey, overwrite, cache, "KeyError",
                 run_results, "none")
         /\ results_cache' = IF cache THEN Put(results_cache, key, run_results)
                             ELSE results_cache
         /\ UNCHANGED <<run_docs, gridfs>>
    ELSE LET out == SaveRunResultsIn(Current, key, run_results, overwrite, cache)
         IN  /\ Becomes(out.st)
             /\ Done("save_run_results", key, NoneKey, overwrite, cache, out.err,
                     run_results, "none")

\* save_run_results(samples, key, run_results, overwrite, cache)
SaveRunResults(key, run_results, overwrite, cache) ==
    IF key = NoneKey
    THEN /\ Done("save_run_results", key, NoneKey, overwrite, cache, "none",
                 run_results, "none")
         /\ UNCHANGED <<run_docs, gridfs, results_cache>>
    ELSE IF key \notin DOMAIN run_docs
    THEN /\ Done("save_run_results", key, NoneKey, overwrite, cache, "KeyError",
                 run_results, "none")
         /\ UNCHANGED <<run_docs, gridfs, results_cache>>
    ELSE LET out == SaveRunResultsIn(Current, key, run_results, overwrite, cache)
         IN  /\ Becomes(out.st)
             /\ Done("save_run_results", key, NoneKey, overwrite, cache, out.err,
                     run_results, "none")

\* load_run_results() that always goes to the stored results
LoadRunResultsIn_NoCache(st, key, cache) ==
    IF key \notin DOMAIN st.docs
    THEN [err |-> "ValueError:nokey", ret |-> NoneResults, st |-> st]
    ELSE IF st.docs[key].results = NoBlob
    THEN [err |-> "none", ret |-> NoneResults, st |-> st]
    ELSE LET run_doc == st.docs[key]
             run_info == GetRunInfo(st, key)
             d == DecodeResults(run_doc.results)
             r == ResultsFromDict(d, key)
         IN  IF run_info.err # "none"
             THEN [err |-> run_info.err, ret |-> NoneResults, st |-> st]
             ELSE IF r.err # "none"
             THEN [err |-> IF run_doc.version = VERSION THEN r.err
                           ELSE "ValueError:version",
                   ret |-> NoneResults, st |-> st]
             ELSE [err |-> "none", ret |-> r.val,
                   st |-> IF cache
                          THEN State(st.docs, st.fs, Put(st.cache, key, r.val))
                          ELSE st]

\* load_run_results() that returns a cache entry only while the key is
\* registered
LoadRunResultsIn_Checking(st, key, cache) ==
    IF cache /\ key \in DOMAIN st.cache /\ key \in DOMAIN st.docs
    THEN [err |-> "none", ret |-> st.cache[key], st |-> st]
    ELSE LoadRunResultsIn_NoCache(st, key, cache)

\* load_run_results(): the error it raises, the object it returns and the
\* state it leaves
LoadRunResultsIn(st, key, cache) ==
    IF cache /\ key \in DOMAIN st.cache
    THEN [err |-> "none", ret |-> st.cache[key], st |-> st]
    ELSE IF key \notin DOMAIN st.docs
    THEN [err |-> "ValueError:nokey", ret |-> NoneResults, st |-> st]
    ELSE IF st.docs[key].results = NoBlob
    THEN [err |-> "none", ret |-> NoneResults, st |-> st]
    ELSE LET run_doc == st.docs[key]
             run_info == GetRunInfo(st, key)
             d == DecodeResults(run_doc.results)
             r == ResultsFromDict(d, key)
         IN  IF run_info.err # "none"
             THEN [err |-> run_info.err, ret |-> NoneResults, st |-> st]
             ELSE IF r.err # "none"
             THEN [err |-> IF run_doc.version = VERSION THEN r.err
                           ELSE "ValueError:version",
                   ret |-> NoneResults, st |-> st]
             ELSE [err |-> "none", ret |-> r.val,
                   st |-> IF cache
                          THEN State(st.docs, st.fs, Put(st.cache, key, r.val))
                          ELSE st]

\* load_run_results(samples, key, cache)
LoadRunResults(key, cache) ==
    LET out == LoadRunResultsIn(Current, key, cache)
    IN  /\ Becomes(out.st)
        /\ Done("load_run_results", key, NoneKey, TRUE, cache, out.err,
                out.ret, "none")

\* has_cached_run_results(samples, key)
HasCachedRunResults(st, key) == key \in DOMAIN st.cache

\* RunResults.save() that always asks for the results to be cached
ResultsSave_AlwaysCache(run_results) ==
    LET key == run_results.key
        cache == TRUE
    IN  IF key = NoneKey
        THEN /\ Done("save", key, NoneKey, TRUE, cache, "none", run_results, "none")
             /\ UNCHANGED <<run_docs, gridfs, results_cache>>
        ELSE IF key \notin DOMAIN run_docs
        THEN /\ Done("save", key, NoneKey, TRUE, cache, "KeyError", run_results,
                     "none")
             /\ UNCHANGED <<run_docs, gridfs, results_cache>>
        ELSE LET out == SaveRunResultsIn(Current, key, run_results, TRUE, cache)
             IN  /\ Becomes(out.st)
                 /\ Done("save", key, NoneKey, TRUE, cache, out.err, run_results,
                         "none")

\* RunResults.save() on a results object the caller holds: the object is
\* saved under its own key with overwrite=True, and cached only when the key
\* has a cache entry already.  The call record keeps that flag.
ResultsSave(run_results) ==
    LET key == run_results.key
        cache == HasCachedRunResults(Current, key)
    IN  IF key = NoneKey
        THEN /\ Done("save", key, NoneKey, TRUE, cache, "none", run_results, "none")
             /\ UNCHANGED <<run_docs, gridfs, results_cache>>
        ELSE IF key \notin DOMAIN run_docs
        THEN /\ Done("save", key, NoneKey, TRUE, cache, "KeyError", run_results,
                     "none")
             /\ UNCHANGED <<run_docs, gridfs, results_cache>>
        ELSE LET out == SaveRunResultsIn(Current, key, run_results, TRUE, cache)
             IN  /\ Becomes(out.st)
                 /\ Done("save", key, NoneKey, TRUE, cache, out.err, run_results,
                         "none")

\* get_run_info(samples, key), called on its own
GetRunInfoCall(key) ==
    /\ Done("get_run_info", key, NoneKey, TRUE, TRUE, GetRunInfo(Current, key).err,
            NoneResults, "none")
    /\ UNCHANGED <<run_docs, gridfs, results_cache>>

\* save_run_results() called in another process on the same dataset: the
\* run document and the results files change as in this process; the cache
\* that call writes is the other process's, which no call of this process
\* reads, and the cache of this process is not touched
PeerSaveRunResults(key, run_results, overwrite) ==
    IF key \notin DOMAIN run_docs
    THEN /\ Done("peer:save_run_results", key, NoneKey, overwrite, TRUE, "KeyError",
                 run_results, "none")
         /\ UNCHANGED <<run_docs, gridfs, results_cache>>
    ELSE LET out == SaveRunResultsIn(Current, key, run_results, overwrite, FALSE)
         IN  /\ Becomes(out.st)
             /\ Done("peer:save_run_results", key, NoneKey, overwrite, TRUE, out.err,
                     run_results, "none")

\* delete_run() called in another process on the same dataset: the run
\* document and its results file are gone; the cache entry popped is the
\* other process's
PeerDeleteRun(key) ==
    IF key \notin DOMAIN run_docs
    THEN /\ Done("peer:delete_run", key, NoneKey, TRUE, TRUE, "ValueError:nokey",
                 NoneResults, "none")
         /\ UNCHANGED <<run_docs, gridfs, results_cache>>
    ELSE \E hook \in HookOutcomes(Current, key) :
           LET st == DeleteRunIn(Current, key)
           IN  /\ Becomes(State(st.docs, st.fs, results_cache))
               /\ Done("peer:delete_run", key, NoneKey, TRUE, TRUE, "none",
                       NoneResults, hook)

\* list_runs(samples, type, **kwargs), called on its own
ListRunsCall(type, kwargs) ==
    LET out == ListRunsOut(Current, type, kwargs)
    IN  /\ last' = [Call("list_runs", NoneKey, NoneKey, TRUE, TRUE, out.err, NoneResults,
                         "none")
                    EXCEPT !.type = type, !.kwargs = kwargs, !.listed = out.keys]
        /\ UNCHANGED <<callers, node>>
        /\ UNCHANGED <<run_docs, gridfs, results_cache>>

\* delete_runs(): delete_run() on every key of list_runs(), in its order
RECURSIVE DeleteAll(_, _)
DeleteAll(st, keys) ==
    IF keys = <<>> THEN st
    ELSE DeleteAll(DeleteRunIn(st, Head(keys)), Tail(keys))

\* delete_runs() that goes through the runs whose info loads only
DeleteRuns_Loadable ==
    \E hook \in (IF ListRuns(Current) = {} THEN {"none"}
                 ELSE UNION {HookOutcomes(Current, k) : k \in ListRuns(Current)}) :
      /\ Becomes(DeleteAll(Current,
                           Sorted({k \in ListRuns(Current) :
                                     GetRunInfo(Current, k).err = "none"})))
      /\ Done("delete_runs", NoneKey, NoneKey, TRUE, TRUE, "none",
              NoneResults, hook)

\* delete_runs(samples)
DeleteRuns ==
    \E hook \in (IF ListRuns(Current) = {} THEN {"none"}
                 ELSE UNION {HookOutcomes(Current, k) : k \in ListRuns(Current)}) :
      /\ Becomes(DeleteAll(Current, Sorted(ListRuns(Current))))
      /\ Done("delete_runs", NoneKey, NoneKey, TRUE, TRUE, "none",
              NoneResults, hook)

\* load_run_view(samples, key, select_fields)
LoadRunView(key, select_fields) ==
    LET out == LoadRunViewIn(Current, key, select_fields)
    IN  /\ last' = [Call("load_run_view", key, NoneKey, TRUE, TRUE, out.err,
                         NoneResults, "none")
                    EXCEPT !.select_fields = select_fields, !.view = out.view]
        /\ UNCHANGED <<run_docs, gridfs, results_cache, callers, node>>

\* update_run_config(samples, key, config)
UpdateRunConfig(key, config) ==
    IF key = NoneKey
    THEN /\ Done("update_run_config", key, NoneKey, TRUE, TRUE, "none",
                 NoneResults, "none")
         /\ UNCHANGED <<run_docs, gridfs, results_cache>>
    ELSE IF key \notin DOMAIN run_docs
    THEN /\ Done("update_run_config", key, NoneKey, TRUE, TRUE, "KeyError",
                 NoneResults, "none")
         /\ UNCHANGED <<run_docs, gridfs, results_cache>>
    ELSE /\ run_docs' = [run_docs EXCEPT ![key].config = SerializeConfig(config)]
         /\ Done("update_run_config", key, NoneKey, TRUE, TRUE, "none",
                 NoneResults, "none")
         /\ UNCHANGED <<gridfs, results_cache>>

\* a 3D object is constructed; the datasets are not involved
Construct(cls, path, mtl_path, flag) ==
    /\ node' = New(cls, path, mtl_path, flag,
                   CASE cls = "ObjMesh" -> ObjMesh("n", path, mtl_path)
                     [] cls = "FBXMesh" -> FBXMesh("n", path)
                     [] cls = "GLTFMesh" -> GLTFMesh("n", path)
                     [] cls = "PlyMesh" -> PlyMesh("n", path)
                     [] cls = "StlMesh" -> StlMesh("n", path)
                     [] cls = "PointCloud" -> PointCloud("n", path, flag))
    /\ UNCHANGED <<run_docs, gridfs, results_cache, last, callers>>

\* a light is constructed, with the other arguments at their defaults
ConstructLight(cls, target, intensity) ==
    /\ node' = New(cls, NonePath, NonePath, FALSE,
                   CASE cls = "AmbientLight" ->
                          AmbientLight(intensity, COLOR_DEFAULT_WHITE)
                     [] cls = "DirectionalLight" ->
                          DirectionalLight(IF target = NonePath THEN Origin ELSE target,
                                           COLOR_DEFAULT_WHITE, intensity)
                     [] cls = "PointLight" ->
                          PointLight(0, 20, COLOR_DEFAULT_WHITE, intensity)
                     [] cls = "SpotLight" ->
                          SpotLight(target, 0, 20, 10, 0, COLOR_DEFAULT_WHITE, intensity))
    /\ UNCHANGED <<run_docs, gridfs, results_cache, last, callers>>

\* the attribute that PointCloud._to_dict_extra looks for is assigned on
\* the point cloud constructed last
SetPreTransformedPcdPath(path) ==
    /\ node.cls = "PointCloud" /\ node.obj.err = "none" /\ node.dict = NoDict
    /\ node' = [node EXCEPT !.obj.attrs =
                   ("_pre_transformed_pcd_path" :> path) @@ node.obj.attrs]
    /\ UNCHANGED <<run_docs, gridfs, results_cache, last, callers>>

\* _to_dict_extra() of the object constructed last
ToDictExtraCall ==
    /\ node.cls # "none" /\ node.obj.err = "none" /\ node.dict = NoDict
    /\ node' = [node EXCEPT !.dict = ToDictExtra(node.obj)]
    /\ UNCHANGED <<run_docs, gridfs, results_cache, last, callers>>

\* the emitted fields of the mesh constructed last are passed back to the
\* constructor of its class as keyword arguments
Rebuild ==
    /\ node.cls \in {"ObjMesh", "FBXMesh", "GLTFMesh", "PlyMesh", "StlMesh"}
    /\ node.dict # NoDict /\ node.rebuilt = Raised("none")
    /\ node' = [node EXCEPT !.rebuilt = MeshFromKwargs(node.cls, "n", node.dict)]
    /\ UNCHANGED <<run_docs, gridfs, results_cache, last, callers>>

----------------------------------------------------------------------------
(* Specifications *)

\* The run lifecycle on two keys: every operation, with runs of two config
\* types registered at any time, one results payload, and a malformed key
\* offered to registration and validation
Next ==
    \/ \E key \in Keys, config \in Configs, overwrite \in BOOLEAN,
          timestamp \in Times, view \in Views :
         RegisterRun(key, config, overwrite, timestamp, view)
    \/ \E key \in Keys, config \in Configs, overwrite \in BOOLEAN :
         ValidateRunCall(key, config, overwrite)
    \/ \E key \in NewKeys, new_key \in NewKeys : UpdateRunKey(key, new_key)
    \/ \E key \in NewKeys, overwrite \in BOOLEAN, cache \in BOOLEAN :
         \E run_results \in {[cls |-> "AResults", data |-> 0, key |-> key], NoneResults} :
           SaveRunResults(key, run_results, overwrite, cache)
    \/ \E key \in NewKeys, cache \in BOOLEAN : LoadRunResults(key, cache)
    \/ \E key \in NewKeys : DeleteRun(key)
    \/ DeleteRuns

Spec == Init /\ [][Next]_vars

\* The results of the runs of one key: every results object, saved and
\* loaded with every flag, on runs of one config type
NextResults ==
    \/ \E key \in {KeyA, NoneKey}, overwrite \in BOOLEAN :
         RegisterRun(key, [type |-> "ARunConfig"], overwrite, 1, <<"stage">>)
    \/ \E key \in {KeyA, NoneKey}, overwrite \in BOOLEAN, cache \in BOOLEAN :
         \E run_results \in RunResultsObjs(key) \cup {NoneResults} :
           SaveRunResults(key, run_results, overwrite, cache)
    \/ \E key \in {KeyA, NoneKey}, cache \in BOOLEAN : LoadRunResults(key, cache)
    \/ \E key \in {KeyA, NoneKey} : DeleteRun(key)
    \/ \E key \in {KeyA, NoneKey} : \E run_results \in RunResultsObjs(key) :
         ResultsSave(run_results)
    \/ \E key \in {KeyA, NoneKey} : GetRunInfoCall(key)

SpecResults == InitResults /\ [][NextResults]_vars

\* The keys of the runs: runs of two config types registered, renamed to any
\* string and deleted, and listed with every filter
KeyAB == <<"a", "b">>
KeyNames == Keys \cup {KeyAB}

NextKeys ==
    \/ \E key \in Keys, config \in Configs, overwrite \in BOOLEAN :
         RegisterRun(key, config, overwrite, 1, <<"stage">>)
    \/ \E key \in KeyNames, new_key \in KeyNames : UpdateRunKey(key, new_key)
    \/ \E key \in KeyNames : DeleteRun(key)
    \/ \E type \in RunTypes \cup {NoType}, kwargs \in KwargsSets : ListRunsCall(type, kwargs)

SpecKeys == Init /\ [][NextKeys]_vars

\* Two threads of one process registering runs on the same dataset, each
\* call in two steps: validate_run(), then save_run_info()
NextRace ==
    \/ \E p \in Callers, key \in NewKeys, config \in Configs, overwrite \in BOOLEAN :
         RegisterValidate(p, key, config, overwrite)
    \/ \E p \in Callers, timestamp \in Times, view \in Views :
         RegisterSave(p, timestamp, view)

SpecRace == Init /\ [][NextRace]_vars

\* One process saving and loading the results of a run, with its results
\* cache, while another process overwrites and deletes them in the store
NextPeers ==
    \/ \E overwrite \in BOOLEAN :
         RegisterRun(KeyA, [type |-> "ARunConfig"], overwrite, 1, <<"stage">>)
    \/ \E overwrite \in BOOLEAN, cache \in BOOLEAN :
         \E run_results \in RunResultsObjs(KeyA) \cup {NoneResults} :
           SaveRunResults(KeyA, run_results, overwrite, cache)
    \/ \E cache \in BOOLEAN : LoadRunResults(KeyA, cache)
    \/ \E overwrite \in BOOLEAN :
         \E run_results \in RunResultsObjs(KeyA) \cup {NoneResults} :
           PeerSaveRunResults(KeyA, run_results, overwrite)
    \/ PeerDeleteRun(KeyA)

SpecPeers == Init /\ [][NextPeers]_vars

\* Overwriting a run whose info does not load: the stored run of a config
\* class that is gone is validated against and overwritten by runs of both
\* config types, under its key and under a key it was renamed to
OverwriteKeys == {KeyA, Key1}
ViewResults == [cls |-> BaseResults, data |-> 0, key |-> NoneKey]

NextOverwrite ==
    \/ \E key \in OverwriteKeys, config \in Configs, overwrite \in BOOLEAN :
         RegisterRun(key, config, overwrite, 1, <<"stage">>)
    \/ \E key \in OverwriteKeys, config \in Configs, overwrite \in BOOLEAN :
         ValidateRunCall(key, config, overwrite)
    \/ \E key \in OverwriteKeys, new_key \in OverwriteKeys : UpdateRunKey(key, new_key)
    \/ \E key \in OverwriteKeys, cache \in BOOLEAN :
         SaveRunResults(key, [ViewResults EXCEPT !.key = key], TRUE, cache)

SpecOverwrite == Init /\ [][NextOverwrite]_vars

\* The results cache of one process: runs on up to three keys, registered,
\* renamed and deleted, with results saved (with and without caching) and
\* loaded
CacheKeys == {KeyA, KeyB, KeyAB}
CacheResults(key) == {[cls |-> "AResults", data |-> d, key |-> key] : d \in {0, 1}}

NextCache ==
    \/ \E key \in {KeyA, KeyB} :
         RegisterRun(key, [type |-> "ARunConfig"], TRUE, 1, <<"stage">>)
    \/ \E key \in CacheKeys, cache \in BOOLEAN :
         \E run_results \in CacheResults(key) :
           SaveRunResults(key, run_results, TRUE, cache)
    \/ \E key \in CacheKeys, cache \in BOOLEAN : LoadRunResults(key, cache)
    \/ \E key \in CacheKeys, new_key \in CacheKeys : UpdateRunKey(key, new_key)
    \/ \E key \in CacheKeys : DeleteRun(key)

SpecCache == Init /\ [][NextCache]_vars

\* The views of the runs: runs of two config types on two keys, their
\* views loaded with and without field selection, their configs updated,
\* and every operation that takes a key also called with None
ViewKeys == {KeyA, KeyB, NoneKey}

NextView ==
    \/ \E key \in ViewKeys, config \in Configs, overwrite \in BOOLEAN :
         RegisterRun(key, config, overwrite, 1, <<"stage">>)
    \/ \E key \in ViewKeys, select_fields \in BOOLEAN : LoadRunView(key, select_fields)
    \/ \E key \in ViewKeys, config \in Configs : UpdateRunConfig(key, config)
    \/ \E key \in ViewKeys, cache \in BOOLEAN :
         SaveRunResults(key, [ViewResults EXCEPT !.key = key], TRUE, cache)
    \/ \E key \in ViewKeys, cache \in BOOLEAN : LoadRunResults(key, cache)
    \/ \E key \in ViewKeys : GetRunInfoCall(key)
    \/ \E key \in ViewKeys : DeleteRun(key)

SpecView == Init /\ [][NextView]_vars

\* The construction of 3D objects, of every class on every path
MeshClasses == {"FBXMesh", "GLTFMesh", "PlyMesh", "StlMesh"}

NextMesh ==
    \/ \E path \in Paths, mtl_path \in MtlPaths : Construct("ObjMesh", path, mtl_path, FALSE)
    \/ \E cls \in MeshClasses, path \in Paths : Construct(cls, path, NonePath, FALSE)
    \/ \E path \in Paths, flag \in BOOLEAN : Construct("PointCloud", path, NonePath, flag)

SpecMesh == InitWith({}) /\ [][NextMesh]_vars

\* The serialization of 3D objects: meshes, point clouds and lights are
\* constructed, emit their fields, and meshes are rebuilt from them
NextScene ==
    \/ NextMesh
    \/ \E cls \in LightClasses, target \in Targets, intensity \in Intensities :
         ConstructLight(cls, target, intensity)
    \/ \E path \in Paths : SetPreTransformedPcdPath(path)
    \/ ToDictExtraCall
    \/ Rebuild

SpecScene == InitWith({}) /\ [][NextScene]_vars

----------------------------------------------------------------------------
(* Properties.  A step is the call that `last` records after it: its       *)
(* operation, key arguments and flags are read from last', the state the   *)
(* call found from the unprimed variables.                                 *)

Unchanged == UNCHANGED <<run_docs, gridfs, results_cache>>

\* the state after the step
After == State(run_docs', gridfs', results_cache')

\* the step is a call of op
Called(op) == last'.op = op

\* the results stored for a key, as load_run_results() rehydrates them; None
\* when the run has no results
Stored(st, key) ==
    IF st.docs[key].results = NoBlob THEN NoneResults
    ELSE ResultsFromDict(DecodeResults(st.docs[key].results), key).val

\* two results objects are equivalent when they serialize to the same dict
Equivalent(r1, r2) == SerializeResults(r1) = SerializeResults(r2)

\* C1: when register_run(k) on a valid identifier k completes without error,
\* k is in list_runs() right afterwards; and a key leaves list_runs() only by
\* delete_run of that key, delete_runs, or update_run_key from that key.
C1_RegisteredIsListed ==
    [][/\ (Called("register_run") /\ last'.err = "none" /\ isidentifier(last'.key))
          => last'.key \in ListRuns(After)
       /\ \A k \in ListRuns(Current) :
            k \notin ListRuns(After)
            => \/ Called("delete_run") /\ last'.key = k
               \/ Called("delete_runs")
               \/ Called("update_run_key") /\ last'.key = k /\ last'.err = "none"
      ]_vars

\* C1 witness: register_run has completed on a key that was registered before
\* (with overwrite) and the key is listed
C1_Witness ==
    /\ last.op = "register_run" /\ last.err = "none" /\ last.hook # "none"
    /\ isidentifier(last.key) /\ last.key \in ListRuns(Current)

\* C2: register_run(k, overwrite=False) on an already registered key fails
\* with the "already exists" ValueError whatever the config types are, and
\* leaves the run documents, the results files and the results cache unchanged.
C2_NoOverwriteConflict ==
    [][(/\ Called("register_run") /\ ~last'.overwrite
        /\ last'.key \in ListRuns(Current))
       => (last'.err = "ValueError:exists" /\ Unchanged)
      ]_vars

\* C2 witness: register_run(overwrite=False) was refused on a key that has
\* results saved and cached
C2_Witness ==
    /\ last.op = "register_run" /\ ~last.overwrite /\ last.err = "ValueError:exists"
    /\ last.key \in DOMAIN results_cache
    /\ run_docs[last.key].results # NoBlob

\* C3 as stated: register_run(k, overwrite=True) on a registered key with a
\* config of another type than the stored one fails with the type-mismatch
\* error for every state of the existing record.
C3_Original ==
    [][(Called("register_run") /\ last'.overwrite /\ last'.key \in ListRuns(Current))
       => \A config \in Configs, timestamp \in Times, view \in Views :
            (/\ run_docs[last'.key].config.cls # config.type
             /\ RegisterRun(last'.key, config, TRUE, timestamp, view))
            => (last'.err = "ValueError:type" /\ Unchanged)
      ]_vars

\* C3 amended: register_run(k, overwrite=True) on a registered key whose run
\* info can be loaded, with a config of another type than the existing one,
\* fails with the type-mismatch error and changes nothing.
C3_TypeMismatch ==
    [][(/\ Called("register_run") /\ last'.overwrite
        /\ last'.key \in ListRuns(Current)
        /\ GetRunInfo(Current, last'.key).err = "none")
       => \A config \in Configs, timestamp \in Times, view \in Views :
            (/\ run_docs[last'.key].config.cls # config.type
             /\ RegisterRun(last'.key, config, TRUE, timestamp, view))
            => (last'.err = "ValueError:type" /\ Unchanged)
      ]_vars

\* C3 witness: register_run(overwrite=True) was refused for its config type
\* and the existing record is in place
C3_Witness ==
    /\ last.op = "register_run" /\ last.overwrite /\ last.err = "ValueError:type"
    /\ last.key \in ListRuns(Current)

\* C4 as stated: on every registered key, a save_run_results(k, r) of a
\* results object r that returned, followed by load_run_results(k,
\* cache=False), returns results equivalent to r.
C4_Original ==
    [][(/\ last.op = "save_run_results" /\ last.err = "none"
        /\ last.key \in ListRuns(Current) /\ ~IsNone(last.results)
        /\ Called("load_run_results") /\ ~last'.cache /\ last'.key = last.key)
       => (/\ last'.err = "none"
           /\ ~IsNone(last'.results)
           /\ Equivalent(last'.results, last.results))
      ]_vars

\* C4 amended: on every registered key whose run info can be loaded, a
\* save_run_results(k, r) that returned, of a results object r whose class
\* implements _from_dict, followed by load_run_results(k, cache=False),
\* returns results equivalent to r with key k, whether or not k had results
\* before and whatever the cache flag of the save was.
C4_RoundTrip ==
    [][(/\ last.op = "save_run_results" /\ last.err = "none"
        /\ last.key \in ListRuns(Current) /\ ~IsNone(last.results)
        /\ GetRunInfo(Current, last.key).err = "none"
        /\ last.results.cls # BaseResults
        /\ Called("load_run_results") /\ ~last'.cache /\ last'.key = last.key)
       => (/\ last'.err = "none"
           /\ ~IsNone(last'.results)
           /\ Equivalent(last'.results, last.results)
           /\ last'.results.key = last.key)
      ]_vars

\* C4 witness: results saved with cache=False over results cached before
\* were loaded back with cache=False, and differ from the cached ones
C4_Witness ==
    /\ last.op = "load_run_results" /\ ~last.cache /\ last.err = "none"
    /\ ~IsNone(last.results) /\ last.results.data = MaxData
    /\ last.key \in DOMAIN results_cache
    /\ ~Equivalent(results_cache[last.key], last.results)

\* C5: update_run_key(old, new) with new already registered (new = old
\* included) fails with the "already exists" error before anything changes:
\* run documents, results files and results cache (with the keys of the cached
\* objects) are unchanged and the rename hook is not called.
C5_RenameToExisting ==
    [][(Called("update_run_key") /\ last'.new \in ListRuns(Current))
       => (/\ last'.err = "ValueError:exists"
           /\ last'.hook = "none"
           /\ Unchanged)
      ]_vars

\* C5 witness: a rename of a run with cached results to another registered
\* key was refused
C5_Witness ==
    /\ last.op = "update_run_key" /\ last.err = "ValueError:exists"
    /\ last.key # last.new
    /\ last.key \in DOMAIN results_cache
    /\ last.new \in ListRuns(Current)

\* C6: delete_run(k) on a registered key returns; afterwards k is not in
\* list_runs(), the cache has no entry for k, a results object that was
\* cached has its key set to None, the record is gone and so is its results
\* file; the records and cache entries of the other keys are unchanged.
C6_DeleteRun ==
    [][(Called("delete_run") /\ last'.key \in ListRuns(Current))
       => LET k == last'.key
          IN  /\ last'.err = "none"
              /\ k \notin ListRuns(After)
              /\ k \notin DOMAIN results_cache'
              /\ (k \in DOMAIN results_cache /\ ~IsNone(results_cache[k]))
                 => (/\ last'.results.key = NoneKey
                     /\ Equivalent(last'.results, results_cache[k]))
              /\ gridfs' = FsOf(run_docs')
              /\ BagCardinality(gridfs') =
                   BagCardinality(gridfs) - (IF run_docs[k].results # NoBlob THEN 1 ELSE 0)
              /\ run_docs' = Pop(run_docs, k)
              /\ results_cache' = Pop(results_cache, k)
      ]_vars

\* C6 witness: a run with a results file and cached results was deleted
\* while another run with cached results stays
C6_Witness ==
    /\ last.op = "delete_run" /\ last.err = "none"
    /\ ~IsNone(last.results) /\ last.results.key = NoneKey
    /\ last.key \notin ListRuns(Current)
    /\ DOMAIN results_cache # {}

\* C7: right after a register_run(k) that returned, the record of k has the
\* running version, the timestamp of the call and no results, and
\* load_run_results(k) returns None with the cache on and off, also when k
\* had saved and cached results before.
C7_RegisterWritesNoResults ==
    [][(Called("register_run") /\ last'.err = "none" /\ last'.key # NoneKey)
       => LET k == last'.key
          IN  /\ run_docs'[k].version = VERSION
              /\ run_docs'[k].results = NoBlob
              /\ \A config \in Configs, timestamp \in Times, view \in Views :
                   RegisterRun(k, config, last'.overwrite, timestamp, view)
                   => run_docs'[k].timestamp = timestamp
              /\ gridfs' = FsOf(run_docs')
              /\ \A cache \in BOOLEAN :
                   LET out == LoadRunResultsIn(After, k, cache)
                   IN  out.err = "none" /\ IsNone(out.ret)
      ]_vars

\* C7 witness: register_run overwrote a run whose results were cached
C7_Witness ==
    /\ last.op = "register_run" /\ last.err = "none"
    /\ ~IsNone(last.results)
    /\ run_docs[last.key].results = NoBlob

\* C8: validate_run changes nothing, whether it returns or raises for a
\* malformed key, a refused overwrite or a type mismatch.
C8_ValidateIsPure ==
    [][Called("validate_run")
       => (/\ Unchanged
           /\ last'.err \in {"none", "ValueError:key", "ValueError:exists",
                             "ValueError:type"})
      ]_vars

\* C8 witness: validate_run returned for an overwrite of a run with saved
\* and cached results
C8_Witness ==
    /\ last.op = "validate_run" /\ last.err = "none" /\ last.overwrite
    /\ last.key \in DOMAIN results_cache
    /\ run_docs[last.key].results # NoBlob

\* C9: load_run_results(k, cache=True) returns the cache entry of k when
\* there is one, and changes nothing; on a miss with stored results that
\* load, it returns the rehydrated results and puts them in the cache, so
\* that loading again returns them; with cache=False the cache is unchanged
\* and the result is the stored one.
C9_LoadPrefersCache ==
    [][Called("load_run_results")
       => LET k == last'.key
          IN  /\ (last'.cache /\ k \in DOMAIN results_cache)
                 => (/\ last'.err = "none"
                     /\ last'.results = results_cache[k]
                     /\ Unchanged)
              /\ (/\ last'.cache
                  /\ k \notin DOMAIN results_cache
                  /\ k \in ListRuns(Current)
                  /\ run_docs[k].results # NoBlob
                  /\ last'.err = "none")
                 => (/\ last'.results = Stored(Current, k)
                     /\ ~IsNone(last'.results)
                     /\ results_cache' = Put(results_cache, k, last'.results)
                     /\ LoadRunResultsIn(After, k, TRUE).ret = last'.results)
              /\ ~last'.cache
                 => (/\ results_cache' = results_cache
                     /\ last'.err = "none" => last'.results = Stored(Current, k))
      ]_vars

\* C9 witness: a load with cache=True returned the cached object although
\* the stored results are others
C9_Witness ==
    /\ last.op = "load_run_results" /\ last.cache /\ last.err = "none"
    /\ last.key \in DOMAIN results_cache
    /\ last.results = results_cache[last.key]
    /\ ~IsNone(last.results)
    /\ LoadRunResultsIn(Current, last.key, FALSE).err = "none"
    /\ ~Equivalent(LoadRunResultsIn(Current, last.key, FALSE).ret, last.results)

\* C10: the results files are exactly those the run documents refer to, one
\* per run with results, after every call; save_run_results on a key with
\* results and overwrite=True returns and leaves one file for the run when
\* results are passed, and with overwrite=False it fails and changes nothing.
C10_SaveOverwrite ==
    [][/\ gridfs' = FsOf(run_docs')
       /\ (/\ Called("save_run_results")
           /\ last'.key \in ListRuns(Current)
           /\ run_docs[last'.key].results # NoBlob)
          => IF last'.overwrite
             THEN /\ last'.err = "none"
                  /\ BagCardinality(gridfs') =
                       BagCardinality(gridfs) - (IF IsNone(last'.results) THEN 1 ELSE 0)
             ELSE last'.err = "ValueError:hasresults" /\ Unchanged
      ]_vars

\* C10 witness: results were saved with overwrite=True over stored results
C10_Witness ==
    /\ last.op = "save_run_results" /\ last.overwrite /\ last.err = "none"
    /\ ~IsNone(last.results)
    /\ last.key \in DOMAIN results_cache
    /\ ~Equivalent(results_cache[last.key], last.results)
    /\ BagCardinality(gridfs) = 1

\* what save_run_results() stores for a results object
Persisted(r) == EncodeResults(SerializeResults(r))

\* C11 as stated: every RunResults.save() leaves has_cached_run_results(key)
\* as it was; when the key was cached the cache entry afterwards is the saved
\* object, and when it was not, the results are persisted and no cache entry
\* is created.
C11_Original ==
    [][Called("save")
       => LET k == last'.key
              r == last'.results
          IN  /\ HasCachedRunResults(After, k) = HasCachedRunResults(Current, k)
              /\ HasCachedRunResults(Current, k) => results_cache'[k] = r
              /\ ~HasCachedRunResults(Current, k)
                 => (/\ last'.err = "none"
                     /\ k \in ListRuns(After)
                     /\ run_docs'[k].results = Persisted(r))
      ]_vars

\* C11 amended: every RunResults.save(), returning or raising, leaves
\* has_cached_run_results(key) as it was and touches no other cache entry;
\* when the key was cached the cache entry afterwards is the saved object;
\* when it was not cached and the object's key is a registered run, the
\* results are persisted (replacing stored ones) and no cache entry is
\* created.  An object whose key is None is not saved, and one whose key is
\* not registered makes save() raise KeyError.
C11_SaveKeepsCachePresence ==
    [][Called("save")
       => LET k == last'.key
              r == last'.results
          IN  /\ HasCachedRunResults(After, k) = HasCachedRunResults(Current, k)
              /\ DOMAIN results_cache' = DOMAIN results_cache
              /\ \A j \in DOMAIN results_cache \ {k} : results_cache'[j] = results_cache[j]
              /\ HasCachedRunResults(Current, k) => results_cache'[k] = r
              /\ (~HasCachedRunResults(Current, k) /\ k \in ListRuns(Current))
                 => (/\ last'.err = "none"
                     /\ run_docs'[k].results = Persisted(r)
                     /\ gridfs' = FsOf(run_docs')
                     /\ results_cache' = results_cache)
              /\ k = NoneKey => (last'.err = "none" /\ Unchanged)
              /\ (k # NoneKey /\ k \notin ListRuns(Current))
                 => (last'.err = "KeyError" /\ Unchanged)
      ]_vars

\* C11 witness: save() of an object over a cache entry holding another object
\* has replaced the entry and the stored results
C11_Witness ==
    /\ last.op = "save" /\ last.err = "none" /\ last.cache
    /\ last.results.data = MaxData
    /\ results_cache[last.key] = last.results
    /\ run_docs[last.key].results = Persisted(last.results)

\* the error RunInfo._from_doc() raises for a stored document ("none" when
\* the info loads), and the one RunResults.from_dict() raises for its results
InfoError(doc) == ConfigFromDict(doc.config).err

ResultsError(doc) == ResultsFromDict(DecodeResults(doc.results), doc.key).err

\* C12: when get_run_info(k) cannot rebuild the run info, or
\* load_run_results(k) (going to the stored results) cannot rebuild the info
\* or the results, the call raises the version-skew ValueError if the version
\* stored with the run is not the running one and the original error if it
\* is; nothing is returned and the documents, files and cache are unchanged.
C12_VersionSkew ==
    [][/\ (/\ Called("get_run_info") /\ last'.key \in ListRuns(Current)
           /\ InfoError(run_docs[last'.key]) # "none")
          => LET doc == run_docs[last'.key]
             IN  /\ last'.err = IF doc.version # VERSION THEN "ValueError:version"
                                ELSE InfoError(doc)
                 /\ IsNone(last'.results)
                 /\ Unchanged
       /\ (/\ Called("load_run_results") /\ last'.key \in ListRuns(Current)
           /\ ~(last'.cache /\ last'.key \in DOMAIN results_cache)
           /\ run_docs[last'.key].results # NoBlob
           /\ (InfoError(run_docs[last'.key]) # "none"
               \/ ResultsError(run_docs[last'.key]) # "none"))
          => LET doc == run_docs[last'.key]
             IN  /\ last'.err = IF doc.version # VERSION THEN "ValueError:version"
                                ELSE IF InfoError(doc) # "none" THEN InfoError(doc)
                                ELSE ResultsError(doc)
                 /\ last'.err # "none"
                 /\ IsNone(last'.results)
                 /\ Unchanged
      ]_vars

\* C12 witness: loading results written by another version failed in
\* from_dict, with the run info loading, and raised the version-skew error
C12_Witness ==
    /\ last.op = "load_run_results" /\ last.cache /\ last.err = "ValueError:version"
    /\ last.key \in ListRuns(Current)
    /\ InfoError(run_docs[last.key]) = "none"
    /\ run_docs[last.key].version = OldVersion
    /\ last.key \notin DOMAIN results_cache

\* C13: whatever becomes of the try block around the hook (the run info
\* does not load, or building the run or the hook itself raises),
\* update_run_key(old, new) of a registered key to a free one returns with the
\* record and a cached results object moved to new, and delete_run(k) of a
\* registered key returns with the record, the results file and the cache
\* entry of k removed.
C13_HookFailuresSwallowed ==
    [][/\ (/\ Called("update_run_key") /\ last'.key \in ListRuns(Current)
           /\ last'.new \notin ListRuns(Current)
           /\ last'.hook \in {"skipped", "raised"})
          => LET old == last'.key
                 new == last'.new
             IN  /\ last'.err = "none"
                 /\ run_docs' = Put(Pop(run_docs, old), new, [run_docs[old] EXCEPT !.key = new])
                 /\ old \notin DOMAIN results_cache'
                 /\ (old \in DOMAIN results_cache /\ ~IsNone(results_cache[old]))
                    => (/\ new \in DOMAIN results_cache'
                        /\ results_cache'[new] = [results_cache[old] EXCEPT !.key = new])
                 /\ gridfs' = gridfs
       /\ (/\ Called("delete_run") /\ last'.key \in ListRuns(Current)
           /\ last'.hook \in {"skipped", "raised"})
          => (/\ last'.err = "none"
              /\ run_docs' = Pop(run_docs, last'.key)
              /\ results_cache' = Pop(results_cache, last'.key)
              /\ gridfs' = FsOf(run_docs'))
       /\ (Called("update_run_key") \/ Called("delete_run"))
          => last'.hook \in {"none", "skipped", "ok", "raised"}
      ]_vars

\* C13 witness: the rename hook raised and the run, with its cached results,
\* is under the new key
C13_Witness ==
    /\ last.op = "update_run_key" /\ last.hook = "raised" /\ last.err = "none"
    /\ last.new \in ListRuns(Current) /\ last.key \notin ListRuns(Current)
    /\ last.new \in DOMAIN results_cache
    /\ results_cache[last.new].key = last.new

\* the elements of a list
Elements(seq) == {seq[i] : i \in 1..Len(seq)}

\* C14: list_runs() never raises and changes nothing.  With a type or config
\* filter it returns, in strictly increasing order, exactly the registered
\* keys whose run info loads, whose config's run class is a subclass of the
\* type (when one is given), and whose config has every named field equal to
\* the given value (a field the config lacks counting as None); with no
\* filter it returns every registered key in increasing order.
C14_ListRunsFilters ==
    [][Called("list_runs")
       => LET keys == last'.listed
              type == last'.type
              kwargs == last'.kwargs
              wanted ==
                IF type = NoType /\ DOMAIN kwargs = {} THEN DOMAIN run_docs
                ELSE {k \in DOMAIN run_docs :
                        /\ InfoError(run_docs[k]) = "none"
                        /\ type # NoType
                           => IsSubclass(RunCls(GetRunInfo(Current, k).config), type)
                        /\ \A field \in DOMAIN kwargs :
                             ConfigAttr(GetRunInfo(Current, k).config, field) = kwargs[field]}
          IN  /\ last'.err = "none"
              /\ Unchanged
              /\ Elements(keys) = wanted
              /\ Len(keys) = Cardinality(wanted)
              /\ \A i \in 1..Len(keys), j \in 1..Len(keys) :
                   i < j => StrLess(keys[i], keys[j])
              /\ Elements(keys) \subseteq Elements(ListRunsOut(Current, NoType, EmptyDict).keys)
      ]_vars

\* C14 witness: a listing by run type returned two of four registered keys,
\* in order, leaving out a run of another type and one whose info does not load
C14_Witness ==
    /\ last.op = "list_runs" /\ last.type = "ARun" /\ DOMAIN last.kwargs = {"method"}
    /\ Cardinality(DOMAIN run_docs) = 4
    /\ last.listed = <<KeyA, KeyAB>>
    /\ \E k \in DOMAIN run_docs : InfoError(run_docs[k]) # "none"
    /\ \E k \in DOMAIN run_docs : run_docs[k].config.cls = "BRunConfig"

\* C15: every key in list_runs() is a string that is a valid identifier,
\* after any sequence of register_run, update_run_key and delete_run.
C15_KeysAreIdentifiers ==
    \A k \in ListRuns(Current) : is_str(k) /\ isidentifier(k)

\* C16: each run record is stored under the key it holds, so that the
\* records of the dataset are one per registered key; register_run on a
\* registered key leaves the number of records as it is and on a new key adds
\* one, update_run_key leaves it as it is with the old key gone, and
\* delete_run takes one away.
C16_OneRecordPerKey ==
    [][/\ \A k \in DOMAIN run_docs' : run_docs'[k].key = k
       /\ Cardinality({run_docs'[k].key : k \in DOMAIN run_docs'}) =
            Cardinality(DOMAIN run_docs')
       /\ (Called("register_run") /\ last'.err = "none" /\ last'.key # NoneKey)
          => Cardinality(DOMAIN run_docs') =
               Cardinality(DOMAIN run_docs) +
                 (IF last'.key \in DOMAIN run_docs THEN 0 ELSE 1)
       /\ (Called("update_run_key") /\ last'.err = "none")
          => (/\ Cardinality(DOMAIN run_docs') = Cardinality(DOMAIN run_docs)
              /\ last'.key \notin DOMAIN run_docs'
              /\ last'.new \in DOMAIN run_docs')
       /\ (Called("delete_run") /\ last'.err = "none")
          => Cardinality(DOMAIN run_docs') = Cardinality(DOMAIN run_docs) - 1
      ]_vars

\* C16 witness: a run registered in this session was renamed while another
\* run is registered, and is stored under its new key only
C16_Witness ==
    /\ last.op = "update_run_key" /\ last.err = "none"
    /\ Cardinality(DOMAIN run_docs) = 2
    /\ run_docs[last.new].key = last.new
    /\ run_docs[last.new].version = VERSION
    /\ last.key \notin DOMAIN run_docs

\* C17: every entry of the results cache maps a run key to a RunResults
\* object, never to None, so that has_cached_run_results(k) implies that
\* load_run_results(k, cache=True) returns a RunResults object.
C17_CacheHoldsResults ==
    \A k \in DOMAIN results_cache :
      /\ ~IsNone(results_cache[k])
      /\ HasCachedRunResults(Current, k)
         => ~IsNone(LoadRunResultsIn(Current, k, TRUE).ret)

\* C18: validate_run() and save_run_info() are separate steps of
\* register_run(): the first raises or passes by the state it finds, and the
\* second, by a caller that has passed, never checks again: it completes
\* without error and leaves the caller's record under the key, replacing one
\* that another caller has written in between, also when the caller's
\* overwrite flag is False.
C18_RegisterRace ==
    [][/\ Called("register_run:validate")
          => LET c == callers'[last'.caller]
             IN  /\ last'.err = ValidateRun(Current, c.key, c.config, c.overwrite)
                 /\ c.pc = (IF last'.err = "none" THEN "validated" ELSE "done")
                 /\ Unchanged
       /\ (Called("register_run") /\ last'.caller \in Callers)
          => LET c == callers[last'.caller]
             IN  /\ c.pc = "validated"
                 /\ last'.err = "none"
                 /\ callers'[last'.caller] = [c EXCEPT !.pc = "done"]
                 /\ c.key \in ListRuns(After)
                 /\ run_docs'[c.key].config = SerializeConfig(c.config)
                 /\ run_docs'[c.key].version = VERSION
                 /\ run_docs'[c.key].results = NoBlob
                 /\ Cardinality(DOMAIN run_docs') =
                      Cardinality(DOMAIN run_docs) +
                        (IF c.key \in DOMAIN run_docs THEN 0 ELSE 1)
       /\ \A p \in Callers : p # last'.caller => callers'[p] = callers[p]
      ]_vars

\* C18 witness: both threads have registered the same key with
\* overwrite=False and configs of two types, neither got an error, and the
\* record is the one of the thread that wrote last
C18_Witness ==
    /\ last.op = "register_run" /\ last.caller = 2 /\ last.err = "none"
    /\ \A p \in Callers :
         /\ callers[p].pc = "done" /\ callers[p].err = "none"
         /\ ~callers[p].overwrite /\ callers[p].key = KeyB
    /\ callers[1].config # callers[2].config
    /\ last.hook # "none"
    /\ run_docs[KeyB].config = SerializeConfig(callers[2].config)

\* C19: a save_run_results() or delete_run() of another process leaves the
\* results cache of this process as it is.  load_run_results(k, cache=True)
\* with a cache entry for k returns that entry and changes nothing, whatever
\* the store holds for k by now; load_run_results(k, cache=False) goes to
\* the store: it raises when k is not registered there and otherwise returns
\* the stored results, leaving the cache alone.
C19_CachesArePerProcess ==
    [][/\ (Called("peer:save_run_results") \/ Called("peer:delete_run"))
          => results_cache' = results_cache
       /\ (/\ Called("load_run_results") /\ last'.cache
           /\ last'.key \in DOMAIN results_cache)
          => (/\ last'.err = "none"
              /\ last'.results = results_cache[last'.key]
              /\ Unchanged)
       /\ (Called("load_run_results") /\ ~last'.cache)
          => (/\ results_cache' = results_cache
              /\ IF last'.key \notin ListRuns(Current)
                 THEN last'.err = "ValueError:nokey"
                 ELSE last'.err = "none" => last'.results = Stored(Current, last'.key))
      ]_vars

\* C19 witness: a load with cache=True returned the cached results of a run
\* that another process has deleted
C19_Witness ==
    /\ last.op = "load_run_results" /\ last.cache /\ last.err = "none"
    /\ ~IsNone(last.results)
    /\ last.key \in DOMAIN results_cache
    /\ last.results = results_cache[last.key]
    /\ last.key \notin ListRuns(Current)
    /\ LoadRunResultsIn(Current, last.key, FALSE).err = "ValueError:nokey"

\* the suffixes a class requires of its main path, and the attribute in
\* which the constructed object keeps the path
RequiredSuffixes(cls) ==
    CASE cls = "ObjMesh" -> {DotObj}
      [] cls = "FBXMesh" -> {DotFbx}
      [] cls = "GLTFMesh" -> {DotGltf, DotGlb}
      [] cls = "PlyMesh" -> {DotPly}
      [] cls = "StlMesh" -> {DotStl}
      [] cls = "PointCloud" -> {DotPcd}

StoredPath(obj) ==
    CASE obj.cls = "ObjMesh" -> obj.attrs.obj_path
      [] obj.cls = "FBXMesh" -> obj.attrs.gltf_path
      [] obj.cls = "GLTFMesh" -> obj.attrs.gltf_path
      [] obj.cls = "PlyMesh" -> obj.attrs.ply_path
      [] obj.cls = "StlMesh" -> obj.attrs.stl_path
      [] obj.cls = "PointCloud" -> obj.attrs.pcd_path

HasRequiredSuffix(cls, path) ==
    \E suffix \in RequiredSuffixes(cls) : EndsWith(Lower(path), suffix)

\* C20 as stated: a constructor of the six classes raises the ValueError if
\* and only if the lower-cased main path does not end with a suffix the class
\* requires, and otherwise the object holds the path exactly as given.
C20_Original ==
    node.cls # "none"
    => /\ (node.obj.err = "ValueError") <=> ~HasRequiredSuffix(node.cls, node.path)
       /\ node.obj.err = "none"
          => (node.obj.cls = node.cls /\ StoredPath(node.obj) = node.path)

\* C20 amended: a constructor raises the ValueError when the lower-cased
\* main path does not end with a suffix the class requires; when it does,
\* the constructor returns an object of the class holding the path exactly
\* as given, except that ObjMesh also raises the ValueError for a material
\* path that is given and does not end with ".mtl" as written.
C20_PathSuffix ==
    node.cls # "none"
    => LET mtl_ok == \/ node.cls # "ObjMesh"
                     \/ node.mtl_path = NonePath
                     \/ EndsWith(node.mtl_path, DotMtl)
       IN  /\ node.obj.err \in {"none", "ValueError"}
           /\ (node.obj.err = "ValueError")
                <=> (~HasRequiredSuffix(node.cls, node.path) \/ ~mtl_ok)
           /\ node.obj.err = "none"
              => (node.obj.cls = node.cls /\ StoredPath(node.obj) = node.path)

\* C20 witness: an ObjMesh was constructed on a path whose extension is in
\* upper case, and holds the path as given
C20_Witness ==
    /\ node.cls = "ObjMesh" /\ node.obj.err = "none"
    /\ node.path = <<"a", ".", "O", "B", "J">>
    /\ node.obj.attrs.obj_path = node.path
    /\ Lower(node.path) # node.path

\* C21: ObjMesh accepts a material path that is given if and only if its
\* lower-cased form ends with ".mtl", as it accepts an obj_path whose
\* lower-cased form ends with ".obj"; a material path of None is always
\* accepted.
C21_MtlPathCaseInsensitive ==
    (node.cls = "ObjMesh" /\ EndsWith(Lower(node.path), DotObj))
    => (node.obj.err = "none"
          <=> (node.mtl_path = NonePath \/ EndsWith(Lower(node.mtl_path), DotMtl)))

\* the field names of the emitted dict that are not camelCase: those with
\* an underscore or an upper-case first character
HasUnderscore(name) == \E i \in DOMAIN name : name[i] = "_"

IsCamelCase(name) ==
    /\ name # <<>>
    /\ ~HasUnderscore(name)
    /\ LowerChar(name[1]) = name[1]

\* C22: every field name in the dict emitted by a light, a mesh of any
\* subtype or a point cloud is camelCase and holds no underscore.
C22_FieldNamesCamelCase ==
    node.dict # NoDict => \A name \in DOMAIN node.dict : IsCamelCase(name)

\* C23: a mesh of any subtype constructed on correctly suffixed paths emits
\* fields whose values are exactly the paths given at construction, under
\* names that, given back to the constructor of the same class as keyword
\* arguments, build a mesh with the same paths.
PathsOf(obj) ==
    IF obj.cls = "ObjMesh" THEN <<obj.attrs.obj_path, obj.attrs.mtl_path>>
    ELSE <<StoredPath(obj), NonePath>>

Values(d) == {d[k] : k \in DOMAIN d}

C23_MeshFieldsRoundTrip ==
    LET meshes == {"ObjMesh", "FBXMesh", "GLTFMesh", "PlyMesh", "StlMesh"}
    IN  /\ (node.cls \in meshes /\ node.dict # NoDict)
           => /\ Values(node.dict) = IF node.cls = "ObjMesh"
                                     THEN {node.path, node.mtl_path} ELSE {node.path}
              /\ DOMAIN node.dict = Parameters(node.cls).required
                                    \cup Parameters(node.cls).optional
        /\ (node.cls \in meshes /\ node.rebuilt # Raised("none"))
           => /\ node.rebuilt.err = "none"
              /\ node.rebuilt.cls = node.cls
              /\ PathsOf(node.rebuilt) = <<node.path, node.mtl_path>>
              /\ PathsOf(node.rebuilt) = PathsOf(node.obj)

\* C23 witness: an FBXMesh, which keeps its path in the attribute
\* gltf_path, was rebuilt from its emitted field on a path in upper case
C23_Witness ==
    /\ node.cls = "FBXMesh" /\ node.path = <<"a", ".", "F", "B", "X">>
    /\ DOMAIN node.dict = {K_fbx_path}
    /\ node.dict[K_fbx_path] = node.path
    /\ node.rebuilt.cls = "FBXMesh" /\ node.rebuilt.err = "none"
    /\ node.rebuilt.attrs.gltf_path = node.path

\* the root of a field is the field up to its first dot; a field is a
\* strict dot-path descendant of a root when it continues the root with a dot
Prefixes(field) == {SubSeq(field, 1, i) : i \in 1..Len(field)}

IsDescendant(field, root) ==
    \E i \in 1..(Len(field) - 1) : SubSeq(field, 1, i) = root /\ field[i + 1] = "."

RootsOf(fields) ==
    {p \in UNION {Prefixes(fields[i]) : i \in DOMAIN fields} :
       /\ ~(\E j \in DOMAIN p : p[j] = ".")
       /\ \E i \in DOMAIN fields : fields[i] = p \/ IsDescendant(fields[i], p)}

\* the other registered runs, and those among them whose info cannot be loaded
OtherRuns(st, key) == ListRuns(st) \ {key}
Unloadable(st, keys) == {k \in keys : GetRunInfo(st, k).err # "none"}

\* the fields of the other runs that descend from a root of the run's fields
Overlapping(st, key) ==
    LET roots == RootsOf(GetRunFields(st, key).fields)
    IN  {f \in UNION {Elements(GetRunFields(st, k).fields) :
                        k \in OtherRuns(st, key) \ Unloadable(st, OtherRuns(st, key))} :
           \E r \in roots : IsDescendant(f, r)}

\* a returned view selects and excludes as load_run_view(k, select_fields)
\* is to do on the runs of st
ViewOf(st, key, select_fields, view) ==
    /\ view.stages = st.docs[key].view_stages
    /\ IF ~select_fields
       THEN view.selected = NoFields /\ view.excluded = NoFields
       ELSE /\ view.selected # NoFields
            /\ Elements(view.selected) = RootsOf(GetRunFields(st, key).fields)
            /\ IF Overlapping(st, key) = {}
               THEN view.excluded = NoFields
               ELSE /\ view.excluded # NoFields
                    /\ Elements(view.excluded) = Overlapping(st, key)

\* C24 as stated: load_run_view(k, select_fields) of a registered run k
\* whose info loads returns the run's view, which with select_fields=True
\* selects the root fields of the fields of k and excludes exactly the
\* fields of the other registered runs that are strict dot-path descendants
\* of one of these roots, and with select_fields=False selects and excludes
\* nothing.
C24_Original ==
    [][(/\ Called("load_run_view")
        /\ last'.key \in ListRuns(Current)
        /\ GetRunInfo(Current, last'.key).err = "none")
       => /\ last'.err = "none"
          /\ ViewOf(Current, last'.key, last'.select_fields, last'.view)]_vars

\* C24 amended: the same, provided that with select_fields=True the info of
\* every other registered run loads; when the info of another registered
\* run cannot be loaded, load_run_view(k, select_fields=True) raises the
\* error of loading it and returns no view.  The call changes nothing.
C24_LoadRunView ==
    [][(/\ Called("load_run_view")
        /\ last'.key \in ListRuns(Current)
        /\ GetRunInfo(Current, last'.key).err = "none")
       => LET k == last'.key
              broken == Unloadable(Current, OtherRuns(Current, k))
          IN  /\ Unchanged
              /\ IF last'.select_fields /\ broken # {}
                 THEN /\ last'.err \in {GetRunInfo(Current, b).err : b \in broken}
                      /\ last'.view = NoView
                 ELSE /\ last'.err = "none"
                      /\ ViewOf(Current, k, last'.select_fields, last'.view)]_vars

\* C24 witness: with a run of BRun registered under "b", the view of the
\* ARun run under "a" was loaded with select_fields=True: it selects "f" and
\* excludes "f.x" of the other run, but not its "fx"
C24_Witness ==
    /\ last.op = "load_run_view" /\ last.key = KeyA /\ last.select_fields
    /\ last.err = "none"
    /\ KeyB \in ListRuns(Current)
    /\ GetRunFields(Current, KeyB).fields = <<FieldFX, FieldFx>>
    /\ last.view.selected = <<FieldF>>
    /\ last.view.excluded = <<FieldFX>>

\* the fields of a run record that a rename is to carry over
CarriedFields == {"version", "timestamp", "config", "view_stages", "results"}

\* C25: a successful update_run_key(old, new) moves the run and nothing
\* else: old leaves list_runs() and new enters it; the record under new has
\* the version, timestamp, config, view stages and results that old had; a
\* results object cached under old is cached under new with its key
\* attribute set to new, and no entry remains under old; the records, the
\* stored results and the cache entries of every other key are unchanged.
C25_RenameMovesOnlyTheRun ==
    [][(Called("update_run_key") /\ last'.err = "none")
       => LET old == last'.key
              new == last'.new
          IN  /\ old \in ListRuns(Current) /\ new \notin ListRuns(Current)
              /\ ListRuns(After) = (ListRuns(Current) \ {old}) \cup {new}
              /\ \A f \in CarriedFields : run_docs'[new][f] = run_docs[old][f]
              /\ run_docs'[new].key = new
              /\ \A k \in ListRuns(Current) \ {old} : run_docs'[k] = run_docs[k]
              /\ gridfs' = gridfs
              /\ old \notin DOMAIN results_cache'
              /\ IF old \in DOMAIN results_cache /\ ~IsNone(results_cache[old])
                 THEN /\ new \in DOMAIN results_cache'
                      /\ results_cache'[new] = [results_cache[old] EXCEPT !.key = new]
                      /\ last'.results = results_cache'[new]
                 ELSE new \notin DOMAIN results_cache'
              /\ DOMAIN results_cache' \subseteq (DOMAIN results_cache \ {old}) \cup {new}
              /\ \A k \in DOMAIN results_cache \ {old} :
                   k \in DOMAIN results_cache' /\ results_cache'[k] = results_cache[k]]_vars

\* C25 witness: the run "a" with cached results was renamed to "ab" while
\* the run "b" has a record and cached results of its own
C25_Witness ==
    /\ last.op = "update_run_key" /\ last.err = "none"
    /\ last.key = KeyA /\ last.new = KeyAB
    /\ ListRuns(Current) = {KeyB, KeyAB}
    /\ DOMAIN results_cache = {KeyB, KeyAB}
    /\ results_cache[KeyAB].key = KeyAB
    /\ results_cache[KeyB].key = KeyB
    /\ run_docs[KeyAB].results # NoBlob

C27_ResultsOnlyForRegisteredRuns ==
    /\ DOMAIN results_cache \subseteq ListRuns(Current)
    /\ gridfs = FsOf(run_docs)
    /\ [][/\ DOMAIN results_cache' \subseteq ListRuns(After)
          /\ gridfs' = FsOf(run_docs')
          /\ (/\ Called("save_run_results")
              /\ last'.key # NoneKey
              /\ last'.key \notin ListRuns(Current))
             => (last'.err = "KeyError" /\ Unchanged)]_vars

\* C27 witness: save_run_results on the unregistered key "b" failed while
\* the run "a" has stored and cached results
C27_Witness ==
    /\ last.op = "save_run_results" /\ last.key = KeyB /\ last.err = "KeyError"
    /\ ~IsNone(last.results)
    /\ ListRuns(Current) = {KeyA}
    /\ DOMAIN results_cache = {KeyA}
    /\ run_docs[KeyA].results # NoBlob
    /\ BagCardinality(gridfs) = 1

\* C28: in one process the results cache never disagrees with the store.
\* After any sequence of register_run, save_run_results (with cache=True or
\* cache=False), load_run_results, update_run_key and delete_run, whenever
\* the cache has an entry for a key k (of a run whose info loads),
\* load_run_results(k, cache=True) and load_run_results(k, cache=False)
\* return equivalent results.
C28_CacheAgreesWithStore ==
    \A k \in DOMAIN results_cache :
      GetRunInfo(Current, k).err = "none"
      => LET cached == LoadRunResultsIn(Current, k, TRUE)
             stored == LoadRunResultsIn(Current, k, FALSE)
         IN  /\ cached.err = "none" /\ stored.err = "none"
             /\ Equivalent(cached.ret, stored.ret)

\* the operations that look the run up with _get_run_doc()
LookupOps == {"delete_run", "get_run_info", "load_run_view", "load_run_results"}

\* C29: delete_run, get_run_info, load_run_view and load_run_results (on a
\* cache miss) called with a key that is not registered raise the ValueError
\* that the dataset has no such key and leave the run records, the stored
\* results and the results cache unchanged; delete_run calls no cleanup
\* hook, and nothing is returned.
C29_UnregisteredKeyRaises ==
    [][(/\ last'.op \in LookupOps
        /\ last'.key \notin ListRuns(Current)
        /\ ~(Called("load_run_results") /\ last'.cache
             /\ last'.key \in DOMAIN results_cache))
       => /\ last'.err = "ValueError:nokey"
          /\ Unchanged
          /\ last'.hook = "none"
          /\ IsNone(last'.results)
          /\ last'.view = NoView]_vars

\* C29 witness: delete_run on the unregistered key "b" raised while the run
\* "a" has stored and cached results, which are still there
C29_Witness ==
    /\ last.op = "delete_run" /\ last.key = KeyB /\ last.err = "ValueError:nokey"
    /\ last.hook = "none"
    /\ ListRuns(Current) = {KeyA}
    /\ run_docs[KeyA].results # NoBlob
    /\ KeyA \in DOMAIN results_cache

\* the operations that return at once for a key of None
NoneKeyOps == {"register_run", "save_run_results", "update_run_config"}

\* C30: register_run, save_run_results and update_run_config called with
\* key None return without error and change nothing: no record is created
\* or modified, no results file is written, the results cache is unchanged,
\* and the key is not validated (validation would raise for None).
C30_NoneKeyIsNoOp ==
    [][(last'.op \in NoneKeyOps /\ last'.key = NoneKey)
       => /\ last'.err = "none"
          /\ ValidateRun(Current, NoneKey, [type |-> "ARunConfig"], last'.overwrite)
               = "ValueError:key"
          /\ Unchanged
          /\ last'.hook = "none"]_vars

\* C30 witness: save_run_results(None, results, cache=True) returned while
\* a run is registered, and the cache is still empty
C30_Witness ==
    /\ last.op = "save_run_results" /\ last.key = NoneKey /\ last.err = "none"
    /\ ~IsNone(last.results) /\ last.cache
    /\ ListRuns(Current) # {}
    /\ results_cache = EmptyDict
    /\ gridfs = FsOf(run_docs)

\* C31: delete_runs returns and deletes every run: afterwards list_runs()
\* is empty, no results file remains and the results cache has no entry for
\* any key that was registered, also when the info of a run cannot be
\* loaded or its cleanup hook fails.
C31_DeleteRunsDeletesAll ==
    [][Called("delete_runs")
       => /\ last'.err = "none"
          /\ ListRuns(After) = {}
          /\ BagToSet(gridfs') = {}
          /\ \A k \in ListRuns(Current) : k \notin DOMAIN results_cache']_vars

\* C31 witness: delete_runs has emptied the dataset on a call in which the
\* cleanup hook of a run raised
C31_Witness ==
    /\ last.op = "delete_runs" /\ last.err = "none" /\ last.hook = "raised"
    /\ ListRuns(Current) = {}
    /\ results_cache = EmptyDict
    /\ BagToSet(gridfs) = {}

====
